---- MODULE Spec2Model ----
(***************************************************************************)
(* Model of the device-ops job execution engine:                           *)
(*   security/validation.rs  SecurityValidator, validate_job_document      *)
(*   executor/command.rs     CommandExecutor::execute / execute_step       *)
(*   ipc/jobs.rs             JobHandler (dedup ledger, control loop)       *)
(*   ipc/client.rs           the two inbound channels, the two publishes   *)
(*                                                                         *)
(* Rust Strings that the code inspects character by character (command    *)
(* paths, allowlist entries) are sequences of one-character strings.       *)
(*                                                                         *)
(* The specifications share the variables:                                 *)
(*   SpecSec   SecurityValidator::validate applied to bounded paths        *)
(*   SpecDoc   validate_job_document applied to bounded documents          *)
(*   SpecExec  one call of CommandExecutor::execute on a bounded document  *)
(*   SpecStep  execute() on one-step documents, every run of the probes    *)
(*   SpecRun   the tail of SystemCommandRunner::run (limit_output)         *)
(*   SpecParse job_callback / parse_job_notification on bounded payloads   *)
(*   Spec      the JobHandler control loop, deliveries interleaved         *)
(*   FairSpec  Spec with fairness of the executor and of the handler       *)
(*   SpecLoop  the select! loop over channels that can close               *)
(***************************************************************************)
EXTENDS Integers, Sequences, FiniteSets, TLC

VARIABLES
    \* ---- SecurityValidator harness (SpecSec)
    sec_path,          \* the script_path handed to validate()
    sec_result,        \* None before the call, then the Result of validate()
    \* ---- validate_job_document harness (SpecDoc)
    val_document,      \* the document handed to validate_job_document (or None)
    val_result,        \* None before the call, then its Result
    \* ---- SystemCommandRunner::run, from the exit of the process on
    raw_stdout,        \* the lines of output.stdout
    raw_stderr,        \* the lines of output.stderr
    run_result,        \* None before, then what limit_output made of them
    \* ---- IpcClient: job_callback
    payload,           \* the payload the callback is invoked with (or None)
    \* ---- CommandExecutor
    security,          \* CommandExecutor.security: None or a SecurityValidator
    job_document,      \* the document execute() is running (None outside execute)
    xpc,               \* position inside execute(): idle/step/running/returned
    idx,               \* 1-based index of the step being executed
    outputs,           \* execute(): outputs
    overall_success,   \* execute(): overall_success
    failed_step,       \* execute(): failed_step
    command,           \* the Command built by the step in progress (or None)
    live,              \* OS processes spawned by the runner and still running
    log,               \* history: what execute() did, in order
    \* ---- JobHandler
    pc,                \* position of run(): startup/subscribe/loop/job/done/...
    processed_jobs,    \* the dedup ledger (VecDeque<String>)
    job_stream,        \* mpsc channel of JobOrError
    reconnect_stream,  \* mpsc channel of (), as the number of queued signals
    job_open,          \* the job channel still has a live sender
    reconnect_open,    \* the reconnect channel still has a live sender
    cur_job,           \* the Job handle_job is working on (or None)
    lifecycle,         \* history: the ordered handler events
    delivered,         \* history: number of job messages the transport sent
    signalled,         \* history: number of reconnection signals it sent
    served             \* history: identifiers 1..served were each accepted and
                       \* reported, in order, before lifecycle begins

raw_vars == <<raw_stdout, raw_stderr, run_result>>
sec_vars == <<sec_path, sec_result, val_document, val_result, raw_vars,
              payload>>
exec_vars == <<job_document, xpc, idx, outputs, overall_success, failed_step,
               command, live, log>>
handler_vars == <<pc, processed_jobs, job_stream, reconnect_stream, job_open,
                  reconnect_open, cur_job, lifecycle, delivered, signalled,
                  served>>
vars == <<sec_path, sec_result, val_document, val_result, raw_stdout,
          raw_stderr, run_result, payload, security,
          job_document, xpc, idx, outputs, overall_success, failed_step,
          command, live, log, pc, processed_jobs,
          job_stream, reconnect_stream, job_open, reconnect_open, cur_job,
          lifecycle, delivered, signalled, served>>

\* Option<T>: None is the empty sequence and Some(x) the one-element sequence.
None == <<>>
Some(x) == <<x>>
is_some(o) == Len(o) > 0
unwrap(o) == o[1]
unwrap_or(o, default) == IF is_some(o) THEN o[1] ELSE default

(***************************************************************************)
(* Bounds of the model.                                                    *)
(***************************************************************************)
MaxTokens == 3
MaxSteps == 2
MaxDeliveries == 2
MaxReconnects == 1

(***************************************************************************)
(* String helpers (std::str).                                              *)
(***************************************************************************)
Contains(haystack, needle) ==
    \E i \in 0..(Len(haystack) - Len(needle)) :
        SubSeq(haystack, i + 1, i + Len(needle)) = needle

StartsWithChar(s, c) == Len(s) > 0 /\ s[1] = c

\* char::to_lowercase on the characters of the model's alphabet
LowerChar(c) ==
    CASE c = "E" -> "e"
      [] c = "F" -> "f"
      [] c = "C" -> "c"
      [] c = "A" -> "a"
      [] OTHER -> c

to_lowercase(s) == [i \in 1..Len(s) |-> LowerChar(s[i])]

(***************************************************************************)
(* std::path::Path::components and Path::starts_with.                      *)
(***************************************************************************)
RECURSIVE SplitSlash(_)
SplitSlash(s) ==
    IF \A i \in 1..Len(s) : s[i] # "/"
    THEN <<s>>
    ELSE LET k == CHOOSE i \in 1..Len(s) :
                      s[i] = "/" /\ \A j \in 1..(i - 1) : s[j] # "/"
         IN <<SubSeq(s, 1, k - 1)>> \o SplitSlash(SubSeq(s, k + 1, Len(s)))

RECURSIVE KeepComponents(_, _, _)
KeepComponents(segs, i, has_root) ==
    IF i > Len(segs) THEN <<>>
    ELSE LET seg == segs[i]
             keep == /\ seg # <<>>
                     /\ (seg # <<".">> \/ (i = 1 /\ ~has_root))
         IN (IF keep THEN <<seg>> ELSE <<>>)
                \o KeepComponents(segs, i + 1, has_root)

\* The root directory is the component <<"/">>, which no other component equals.
Components(p) ==
    LET has_root == StartsWithChar(p, "/")
    IN (IF has_root THEN << <<"/">> >> ELSE <<>>)
           \o KeepComponents(SplitSlash(p), 1, has_root)

PathStartsWith(p, base) ==
    LET pc_ == Components(p)
        bc == Components(base)
    IN Len(bc) <= Len(pc_) /\ SubSeq(pc_, 1, Len(bc)) = bc

(***************************************************************************)
(* security/validation.rs: SecurityValidator.                              *)
(***************************************************************************)
Ok == [ok |-> TRUE]
Err(kind, reason) == [ok |-> FALSE, kind |-> kind, reason |-> reason]

SecurityValidator(command_allowlist, path_allowlist) ==
    [command_allowlist |-> command_allowlist, path_allowlist |-> path_allowlist]

has_path_traversal_no_lowercase(path) ==
    IF Contains(path, <<".", ".">>) \/ Contains(path, <<"~">>) THEN TRUE
    ELSE IF \/ Contains(path, <<"%", "2", "e", "%", "2", "e">>)
            \/ Contains(path, <<"%", "2", "f">>)
            \/ Contains(path, <<"%", "5", "c">>) THEN TRUE
    ELSE IF ~StartsWithChar(path, "/") THEN TRUE
    ELSE FALSE

has_path_traversal(path) ==
    IF Contains(path, <<".", ".">>) \/ Contains(path, <<"~">>) THEN TRUE
    ELSE LET lower == to_lowercase(path)
         IN IF \/ Contains(lower, <<"%", "2", "e", "%", "2", "e">>)
               \/ Contains(lower, <<"%", "2", "f">>)
               \/ Contains(lower, <<"%", "5", "c">>) THEN TRUE
            ELSE IF ~StartsWithChar(path, "/") THEN TRUE
            ELSE FALSE

is_command_allowed(self, script_path) ==
    \E k \in 1..Len(self.command_allowlist) :
        script_path = self.command_allowlist[k]

\* Mutant of is_path_allowed: the entries are matched as text prefixes.
is_path_allowed_by_text(self, script_path) ==
    \E k \in 1..Len(self.path_allowlist) :
        LET allowed == self.path_allowlist[k]
        IN /\ Len(allowed) <= Len(script_path)
           /\ SubSeq(script_path, 1, Len(allowed)) = allowed

is_path_allowed(self, script_path) ==
    \E k \in 1..Len(self.path_allowlist) :
        PathStartsWith(script_path, self.path_allowlist[k])

validate(self, cmd) ==
    IF has_path_traversal(cmd.script_path)
    THEN Err("SecurityError", "Path traversal detected")
    ELSE IF /\ Len(self.command_allowlist) # 0
            /\ ~is_command_allowed(self, cmd.script_path)
    THEN Err("SecurityError", "Command not in allowlist")
    ELSE IF /\ Len(self.path_allowlist) # 0
            /\ ~is_path_allowed(self, cmd.script_path)
    THEN Err("SecurityError", "Path not in allowlist")
    ELSE Ok

Command(script_path, run_as_user) ==
    [script_path |-> script_path, run_as_user |-> run_as_user]

(***************************************************************************)
(* SpecSec: validate() applied to every path made of at most MaxTokens     *)
(* tokens, under validators whose allowlists are empty, hold the path      *)
(* itself, or hold another entry.                                          *)
(***************************************************************************)
SecTokens ==
    { <<"/">>, <<".">>, <<"~">>, <<"a">>,
      <<"%", "2", "e">>, <<"%", "2", "E">>,
      <<"%", "2", "f">>, <<"%", "2", "F">>,
      <<"%", "5", "c">>, <<"%", "5", "C">> }

RECURSIVE PathsOfTokens(_)
PathsOfTokens(n) ==
    IF n = 0 THEN {<<>>}
    ELSE LET shorter == PathsOfTokens(n - 1)
         IN shorter \cup {p \o t : p \in shorter, t \in SecTokens}

SecPaths == PathsOfTokens(MaxTokens)

SecValidators(path) ==
    { SecurityValidator(c, p) :
        c \in {<<>>, <<path>>, << <<"/", "a">> >>},
        p \in {<<>>, <<path>>, << <<"/">> >>, << <<"/", "a">> >>} }

IdleRaw ==
    /\ raw_stdout = None
    /\ raw_stderr = None
    /\ run_result = None

IdleSec ==
    /\ sec_path = <<>>
    /\ sec_result = None
    /\ val_document = None
    /\ val_result = None
    /\ IdleRaw
    /\ payload = None

IdleExec ==
    /\ job_document = None
    /\ xpc = "idle"
    /\ idx = 0
    /\ outputs = <<>>
    /\ overall_success = TRUE
    /\ failed_step = None
    /\ command = None
    /\ live = {}
    /\ log = <<>>

IdleHandler ==
    /\ pc = "idle"
    /\ processed_jobs = <<>>
    /\ job_stream = <<>>
    /\ reconnect_stream = 0
    /\ job_open = FALSE
    /\ reconnect_open = FALSE
    /\ cur_job = None
    /\ lifecycle = <<>>
    /\ delivered = 0
    /\ signalled = 0
    /\ served = 0

SecInit ==
    /\ sec_path \in SecPaths
    /\ sec_result = None
    /\ val_document = None
    /\ val_result = None
    /\ IdleRaw
    /\ payload = None
    /\ security = None
    /\ IdleExec
    /\ IdleHandler

\* SecurityValidator::new(config) followed by validator.validate(&command)
SecValidate ==
    /\ sec_result = None
    /\ \E v \in SecValidators(sec_path) :
        /\ security' = Some(v)
        /\ sec_result' = Some(validate(v, Command(sec_path, None)))
    /\ UNCHANGED <<sec_path, val_document, val_result, raw_vars, payload,
                   exec_vars,
                   handler_vars>>

SecNext == SecValidate

SpecSec == SecInit /\ [][SecNext]_vars

(***************************************************************************)
(* models/models.rs: the job document and the execution records.           *)
(***************************************************************************)
JobInput(cmd, timeout) == [command |-> cmd, timeout |-> timeout]

JobAction(name, action_type, input, run_as_user, ignore_step_failure, allow_std_err) ==
    [name |-> name, action_type |-> action_type, input |-> input,
     run_as_user |-> run_as_user, ignore_step_failure |-> ignore_step_failure,
     allow_std_err |-> allow_std_err]

JobDocument(version, steps, final_step, include_std_out) ==
    [version |-> version, steps |-> steps, final_step |-> final_step,
     include_std_out |-> include_std_out]

ExecutionOutput(stdout, stderr, exit_code, execution_time_ms, stderr_line_count, stdout_truncated, stderr_truncated) ==
    [stdout |-> stdout, stderr |-> stderr, exit_code |-> exit_code,
     execution_time_ms |-> execution_time_ms,
     stderr_line_count |-> stderr_line_count,
     stdout_truncated |-> stdout_truncated,
     stderr_truncated |-> stderr_truncated]

StepOutput(step_name, output, ignored_failure) ==
    [step_name |-> step_name, output |-> output,
     ignored_failure |-> ignored_failure]

OkOutput(output) == [ok |-> TRUE, output |-> output]
OkCommand(cmd) == [ok |-> TRUE, command |-> cmd]

(***************************************************************************)
(* executor/command.rs: CommandExecutor.                                   *)
(***************************************************************************)
\* `output.stderr_line_count > allowed_stderr as usize`: the cast of a negative
\* i32 to usize wraps to at least 2^63 (2^31 on a 32-bit target), above every
\* line count limit_output can leave (at most MAX_OUTPUT_LINES + 1).
ExceedsAllowed(stderr_line_count, allowed_stderr) ==
    IF allowed_stderr < 0 THEN FALSE
    ELSE stderr_line_count > allowed_stderr

evaluate_step_success_no_threshold(output, action) ==
    output.exit_code = 0 /\ output.stderr_line_count = 0

evaluate_step_success(output, action) ==
    IF output.exit_code # 0 THEN FALSE
    ELSE LET allowed_stderr == unwrap_or(action.allow_std_err, 0)
         IN IF ExceedsAllowed(output.stderr_line_count, allowed_stderr)
            THEN FALSE
            ELSE TRUE

\* verify_sudo_and_user: `probes` holds, in order, what the calls of
\* std::process::Command::output it makes (which sudo, id <user>,
\* sudo -n -u <user> true) came to: "success" and "failure" are the exit
\* status of a process that ran, "io_error" is the Err of output() itself.
OkBool(b) == [ok |-> TRUE, value |-> b]

verify_sudo_and_user(probes) ==
    IF probes[1] = "io_error"
    THEN Err("ExecutionError", "Failed to check for sudo")
    ELSE IF probes[1] # "success" THEN OkBool(FALSE)
    ELSE IF probes[2] = "io_error"
    THEN Err("ExecutionError", "Failed to check for user")
    ELSE IF probes[2] # "success" THEN OkBool(FALSE)
    ELSE IF probes[3] = "io_error"
    THEN Err("ExecutionError", "Failed to test sudo access")
    ELSE IF probes[3] # "success" THEN OkBool(FALSE)
    ELSE OkBool(TRUE)

build_command_negative_fails(action, probes) ==
    IF is_some(action.run_as_user)
    THEN LET verified == verify_sudo_and_user(probes)
         IN IF ~verified.ok
            THEN verified
            ELSE IF ~verified.value
            THEN Err("ExecutionError", "sudo or user not found")
            ELSE OkCommand(Command(action.input.command, action.run_as_user))
    ELSE OkCommand(Command(action.input.command, None))

\* build_command: verify_sudo_and_user is consulted only when the action
\* names a run_as_user.
build_command(action, probes) ==
    IF is_some(action.run_as_user)
    THEN LET verified == verify_sudo_and_user(probes)
         IN IF ~verified.ok
            THEN verified
            ELSE OkCommand(Command(action.input.command,
                                   IF verified.value
                                   THEN action.run_as_user ELSE None))
    ELSE OkCommand(Command(action.input.command, None))

\* The accumulator of execute(): outputs, overall_success, failed_step; brk
\* tells whether the arm leaves the loop over the regular steps.
Acc(outs, success, failed, brk) ==
    [outputs |-> outs, overall_success |-> success, failed_step |-> failed,
     brk |-> brk]

\* Mutants of the match arms of execute().
RegularArmNoBreak(acc, action, res) ==
    LET ignore_failure == unwrap_or(action.ignore_step_failure, FALSE)
    IN IF res.ok
       THEN LET step_failed == ~evaluate_step_success(res.output, action)
            IN IF step_failed /\ ~ignore_failure
               THEN Acc(Append(acc.outputs,
                               StepOutput(action.name, res.output, FALSE)),
                        FALSE, Some(action.name), FALSE)
               ELSE Acc(Append(acc.outputs,
                               StepOutput(action.name, res.output,
                                          step_failed /\ ignore_failure)),
                        acc.overall_success, acc.failed_step, FALSE)
       ELSE IF ~ignore_failure
            THEN Acc(acc.outputs, FALSE, Some(action.name), FALSE)
            ELSE Acc(acc.outputs, acc.overall_success, acc.failed_step, FALSE)

RegularArmIgnoredFails(acc, action, res) ==
    LET ignore_failure == unwrap_or(action.ignore_step_failure, FALSE)
    IN IF res.ok
       THEN LET step_failed == ~evaluate_step_success(res.output, action)
            IN IF step_failed /\ ~ignore_failure
               THEN Acc(Append(acc.outputs,
                               StepOutput(action.name, res.output, FALSE)),
                        FALSE, Some(action.name), TRUE)
               ELSE Acc(Append(acc.outputs,
                               StepOutput(action.name, res.output,
                                          step_failed /\ ignore_failure)),
                        acc.overall_success /\ ~step_failed,
                        acc.failed_step, FALSE)
       ELSE IF ~ignore_failure
            THEN Acc(acc.outputs, FALSE, Some(action.name), TRUE)
            ELSE Acc(acc.outputs, FALSE, acc.failed_step, TRUE)

RegularArmFlagDropped(acc, action, res) ==
    LET ignore_failure == unwrap_or(action.ignore_step_failure, FALSE)
    IN IF res.ok
       THEN LET step_failed == ~evaluate_step_success(res.output, action)
            IN IF step_failed /\ ~ignore_failure
               THEN Acc(Append(acc.outputs,
                               StepOutput(action.name, res.output, FALSE)),
                        FALSE, Some(action.name), TRUE)
               ELSE Acc(Append(acc.outputs,
                               StepOutput(action.name, res.output, FALSE)),
                        acc.overall_success, acc.failed_step, FALSE)
       ELSE IF ~ignore_failure
            THEN Acc(acc.outputs, FALSE, Some(action.name), TRUE)
            ELSE Acc(acc.outputs, acc.overall_success, acc.failed_step, FALSE)

RegularArmOutputDropped(acc, action, res) ==
    LET ignore_failure == unwrap_or(action.ignore_step_failure, FALSE)
    IN IF res.ok
       THEN LET step_failed == ~evaluate_step_success(res.output, action)
            IN IF step_failed /\ ~ignore_failure
               THEN Acc(acc.outputs, FALSE, Some(action.name), TRUE)
               ELSE Acc(Append(acc.outputs,
                               StepOutput(action.name, res.output,
                                          step_failed /\ ignore_failure)),
                        acc.overall_success, acc.failed_step, FALSE)
       ELSE IF ~ignore_failure
            THEN Acc(acc.outputs, FALSE, Some(action.name), TRUE)
            ELSE Acc(acc.outputs, acc.overall_success, acc.failed_step, FALSE)

RegularArmFlagsByOption(acc, action, res) ==
    LET ignore_failure == unwrap_or(action.ignore_step_failure, FALSE)
    IN IF res.ok
       THEN LET step_failed == ~evaluate_step_success(res.output, action)
            IN IF step_failed /\ ~ignore_failure
               THEN Acc(Append(acc.outputs,
                               StepOutput(action.name, res.output, FALSE)),
                        FALSE, Some(action.name), TRUE)
               ELSE Acc(Append(acc.outputs,
                               StepOutput(action.name, res.output,
                                          ignore_failure)),
                        acc.overall_success, acc.failed_step, FALSE)
       ELSE IF ~ignore_failure
            THEN Acc(acc.outputs, FALSE, Some(action.name), TRUE)
            ELSE Acc(acc.outputs, acc.overall_success, acc.failed_step, FALSE)

\* execute(), lines 173-229: the match on the result of a regular step.
RegularArm(acc, action, res) ==
    LET ignore_failure == unwrap_or(action.ignore_step_failure, FALSE)
    IN IF res.ok
       THEN LET step_failed == ~evaluate_step_success(res.output, action)
            IN IF step_failed /\ ~ignore_failure
               THEN Acc(Append(acc.outputs,
                               StepOutput(action.name, res.output, FALSE)),
                        FALSE, Some(action.name), TRUE)
               ELSE Acc(Append(acc.outputs,
                               StepOutput(action.name, res.output,
                                          step_failed /\ ignore_failure)),
                        acc.overall_success, acc.failed_step, FALSE)
       ELSE IF ~ignore_failure
            THEN Acc(acc.outputs, FALSE, Some(action.name), TRUE)
            ELSE Acc(acc.outputs, acc.overall_success, acc.failed_step, FALSE)

FinalArmHonoursIgnore(acc, action, res) ==
    LET ignore_failure == unwrap_or(action.ignore_step_failure, FALSE)
    IN IF res.ok
       THEN LET step_failed == ~evaluate_step_success(res.output, action)
            IN IF step_failed /\ ~ignore_failure
               THEN Acc(Append(acc.outputs,
                               StepOutput(action.name, res.output, FALSE)),
                        FALSE, Some(action.name), TRUE)
               ELSE Acc(Append(acc.outputs,
                               StepOutput(action.name, res.output,
                                          step_failed /\ ignore_failure)),
                        acc.overall_success, acc.failed_step, TRUE)
       ELSE IF ~ignore_failure
            THEN Acc(acc.outputs, FALSE, Some(action.name), TRUE)
            ELSE Acc(acc.outputs, acc.overall_success, acc.failed_step, TRUE)

FinalArmUnnamed(acc, action, res) ==
    IF res.ok
    THEN LET step_failed == ~evaluate_step_success(res.output, action)
         IN Acc(Append(acc.outputs,
                       StepOutput(action.name, res.output, FALSE)),
                acc.overall_success /\ ~step_failed, acc.failed_step, TRUE)
    ELSE Acc(acc.outputs, FALSE, acc.failed_step, TRUE)

\* execute(), lines 240-268: the match on the result of the final step.
FinalArm(acc, action, res) ==
    IF res.ok
    THEN LET step_failed == ~evaluate_step_success(res.output, action)
         IN IF step_failed
            THEN Acc(Append(acc.outputs,
                            StepOutput(action.name, res.output, FALSE)),
                     FALSE, Some(action.name), TRUE)
            ELSE Acc(Append(acc.outputs,
                            StepOutput(action.name, res.output, FALSE)),
                     acc.overall_success, acc.failed_step, TRUE)
    ELSE Acc(acc.outputs, FALSE, Some(action.name), TRUE)

\* execute(), lines 232-234: the final step runs when overall_success still
\* holds after the loop and the document has a final step.
RunsFinalStepAlways(acc, doc) == is_some(doc.final_step)

RunsFinalStep(acc, doc) == acc.overall_success /\ is_some(doc.final_step)

\* JobStep only wraps its JobAction: steps holds the actions themselves.  The
\* final step has the index Len(steps) + 1.
FinalIdx(doc) == Len(doc.steps) + 1
ActionAt(doc, i) ==
    IF i <= Len(doc.steps) THEN doc.steps[i] ELSE unwrap(doc.final_step)

\* An entry of the history `log`.  ev is
\*   "probe"     build_command spawned the elevation probes for the step;
\*               res carries what verify_sudo_and_user made of them
\*   "reject"    the SecurityValidator rejected the step's command
\*   "run"       CommandRunner::run was invoked for the step; res carries the
\*               Command it was handed
\*   "returned"  execute_step returned res to execute(); failed is what
\*               execute() made of it (an Err, or evaluate_step_success false)
Event(ev, step, res, failed) ==
    [ev |-> ev, step |-> step, res |-> res, failed |-> failed]

\* The state in which execute(doc) starts: nothing accumulated, positioned on
\* the first regular step, or on the final step when there is no regular one.
EnterExecute(doc) ==
    /\ job_document' = Some(doc)
    /\ outputs' = <<>>
    /\ overall_success' = TRUE
    /\ failed_step' = None
    /\ command' = None
    /\ log' = <<>>
    /\ idx' = 1
    /\ xpc' = IF Len(doc.steps) > 0 \/ is_some(doc.final_step)
              THEN "step" ELSE "returned"

\* execute_step has returned res for the step idx: the match arm of execute()
\* runs, then the loop advances, moves on to the final step, or returns.
StepReturns(res, events) ==
    LET doc == unwrap(job_document)
        action == ActionAt(doc, idx)
        acc == Acc(outputs, overall_success, failed_step, FALSE)
        is_final == idx > Len(doc.steps)
        r == IF is_final THEN FinalArm(acc, action, res)
             ELSE RegularArm(acc, action, res)
        failed == IF res.ok THEN ~evaluate_step_success(res.output, action)
                  ELSE TRUE
    IN /\ outputs' = r.outputs
       /\ overall_success' = r.overall_success
       /\ failed_step' = r.failed_step
       /\ command' = None
       /\ log' = log \o events \o <<Event("returned", idx, res, failed)>>
       /\ IF ~is_final /\ ~r.brk /\ idx < Len(doc.steps)
          THEN idx' = idx + 1 /\ xpc' = "step"
          ELSE IF ~is_final /\ RunsFinalStep(r, doc)
          THEN idx' = FinalIdx(doc) /\ xpc' = "step"
          ELSE idx' = idx /\ xpc' = "returned"
       /\ UNCHANGED job_document

\* What the "probe" event records: the calls verify_sudo_and_user made.
Probed(probes) == [ok |-> TRUE, probes |-> probes]

\* The runs of verify_sudo_and_user: it returns at the first call that does
\* not succeed.
ProbeRuns ==
    { <<"io_error">>, <<"failure">>,
      <<"success", "io_error">>, <<"success", "failure">>,
      <<"success", "success", "io_error">>,
      <<"success", "success", "failure">>,
      <<"success", "success", "success">> }

\* The two runs SpecExec draws from: the first probe cannot be started, and
\* all three succeed.  A probe that fails leaves execute() where a step
\* without run_as_user does; SpecStep draws from every run.
CoarseRuns ==
    { <<"io_error">>, <<"success", "success", "success">> }

ProbeOutcomes(action, runs) ==
    IF is_some(action.run_as_user) THEN runs ELSE {<<>>}

\* execute_step up to its first suspension: build_command (with its blocking
\* probes), the security check, and CommandRunner::run up to cmd.spawn().
\* `runs` is the set the host's answers to the probes are drawn from.
ExecStepBeginOn(runs) ==
    /\ xpc = "step"
    /\ LET doc == unwrap(job_document)
           action == ActionAt(doc, idx)
       IN \E probe \in ProbeOutcomes(action, runs), spawned \in BOOLEAN :
           LET built == build_command(action, probe)
               probed == IF is_some(action.run_as_user)
                         THEN <<Event("probe", idx, Probed(probe), FALSE)>>
                         ELSE <<>>
               checked == IF built.ok /\ is_some(security)
                          THEN validate(unwrap(security), built.command)
                          ELSE Ok
           IN IF ~built.ok
              THEN StepReturns(built, probed) /\ UNCHANGED live
              ELSE IF ~checked.ok
              THEN /\ StepReturns(checked,
                                  probed \o <<Event("reject", idx, Ok, FALSE)>>)
                   /\ UNCHANGED live
              ELSE IF ~spawned
              THEN /\ StepReturns(Err("ExecutionError",
                                      "Failed to spawn command"),
                                  probed \o <<Event("run", idx, built, FALSE)>>)
                   /\ UNCHANGED live
              ELSE /\ xpc' = "running"
                   /\ command' = Some(built.command)
                   /\ live' = live \cup {idx}
                   /\ log' = log \o probed
                                 \o <<Event("run", idx, built, FALSE)>>
                   /\ UNCHANGED <<job_document, idx, outputs, overall_success,
                                  failed_step>>
    /\ UNCHANGED <<sec_vars, security, handler_vars>>

ExecStepBegin == ExecStepBeginOn(CoarseRuns)

\* What SystemCommandRunner::run can return for a finished process: a clean
\* exit with output, a non-zero exit code, a zero exit code with one line on
\* stderr.  run() leaves execution_time_ms at 0.
RunnerOutputs ==
    { ExecutionOutput("hi", "", 0, 0, 0, FALSE, FALSE),
      ExecutionOutput("", "", 1, 0, 0, FALSE, FALSE),
      ExecutionOutput("", "warn", 0, 0, 1, FALSE, FALSE) }

\* start.elapsed().as_millis(), as read by execute_step
ElapsedMs == 7

\* execute_step, lines 305-315: the runner's output with the elapsed time.
Timed(output, elapsed) == [output EXCEPT !.execution_time_ms = elapsed]

\* child.wait_with_output() completes within the timeout: the process is
\* gone and execute_step returns its output.
RunnerCompletes ==
    /\ xpc = "running"
    /\ \E output \in RunnerOutputs :
        StepReturns(OkOutput(Timed(output, ElapsedMs)), <<>>)
    /\ live' = live \ {idx}
    /\ UNCHANGED <<sec_vars, security, handler_vars>>

\* child.wait_with_output() fails with an I/O error.
RunnerWaitFails ==
    /\ xpc = "running"
    /\ StepReturns(Err("ExecutionError", "Failed to execute command"), <<>>)
    /\ live' = live \ {idx}
    /\ UNCHANGED <<sec_vars, security, handler_vars>>

\* Mutant of StepTimesOut: a step that timed out is given a second run.
StepTimesOutRetries ==
    /\ xpc = "running"
    /\ IF Cardinality({k \in 1..Len(log) :
                          log[k].ev = "run" /\ log[k].step = idx}) < 2
       THEN /\ xpc' = "step"
            /\ command' = None
            /\ UNCHANGED <<job_document, idx, outputs, overall_success,
                           failed_step, log>>
       ELSE StepReturns(Err("TimeoutError", "command exceeded timeout"), <<>>)
    /\ UNCHANGED live
    /\ UNCHANGED <<sec_vars, security, handler_vars>>

\* timeout() expires first: the future of run() is dropped, and with it the
\* tokio Child, which is not configured with kill_on_drop and is never killed:
\* the process keeps running.
StepTimesOut ==
    /\ xpc = "running"
    /\ StepReturns(Err("TimeoutError", "command exceeded timeout"), <<>>)
    /\ UNCHANGED live
    /\ UNCHANGED <<sec_vars, security, handler_vars>>

ExecNext ==
    \/ ExecStepBegin
    \/ RunnerCompletes
    \/ RunnerWaitFails
    \/ StepTimesOut

(***************************************************************************)
(* SpecExec: one call of execute() on every document of at most MaxSteps   *)
(* regular steps drawn from StepShapes, with or without a final step, with *)
(* security disabled or enabled.                                           *)
(***************************************************************************)
GoodCommand == <<"/", "a">>
BadCommand == <<".", ".", "/", "a">>

\* [command, run_as_user, ignore_step_failure, allow_std_err]
StepShapes ==
    { <<GoodCommand, None, None, None>>,
      <<GoodCommand, Some("svc"), Some(TRUE), None>>,
      <<GoodCommand, None, Some(FALSE), Some(1)>>,
      <<GoodCommand, None, Some(TRUE), Some(-1)>>,
      <<BadCommand, Some("svc"), None, None>>,
      <<BadCommand, None, Some(TRUE), None>> }

FinalShapes ==
    { <<GoodCommand, None, None, None>>,
      <<GoodCommand, Some("svc"), Some(TRUE), None>>,
      <<BadCommand, None, Some(TRUE), None>> }

StepName(i) ==
    CASE i = 1 -> "step1" [] i = 2 -> "step2" [] i = 3 -> "step3"
      [] OTHER -> "stepN"

ShapedAction(name, shape) ==
    JobAction(name, "runCommand", JobInput(shape[1], None), shape[2],
              shape[3], shape[4])

StepsOfLen(n) ==
    { [i \in 1..n |-> ShapedAction(StepName(i), shapes[i])] :
        shapes \in [1..n -> StepShapes] }

ExecDocuments ==
    { JobDocument("1.0", steps, final, None) :
        steps \in UNION {StepsOfLen(n) : n \in 0..MaxSteps},
        final \in {None} \cup
                  {Some(ShapedAction("final", f)) : f \in FinalShapes} }

ExecValidators == {None, Some(SecurityValidator(<<>>, <<>>))}

ExecInit ==
    /\ IdleSec
    /\ IdleHandler
    /\ security \in ExecValidators
    /\ live = {}
    /\ \E doc \in ExecDocuments :
        /\ job_document = Some(doc)
        /\ outputs = <<>>
        /\ overall_success = TRUE
        /\ failed_step = None
        /\ command = None
        /\ log = <<>>
        /\ idx = 1
        /\ xpc = IF Len(doc.steps) > 0 \/ is_some(doc.final_step)
                 THEN "step" ELSE "returned"

SpecExec == ExecInit /\ [][ExecNext]_vars

(***************************************************************************)
(* SpecStep: execute() on the documents of one regular step, with every    *)
(* run of the elevation probes.                                            *)
(***************************************************************************)
StepDocuments == { doc \in ExecDocuments : Len(doc.steps) = 1 }

StepInit ==
    /\ IdleSec
    /\ IdleHandler
    /\ security \in ExecValidators
    /\ live = {}
    /\ \E doc \in StepDocuments :
        /\ job_document = Some(doc)
        /\ outputs = <<>>
        /\ overall_success = TRUE
        /\ failed_step = None
        /\ command = None
        /\ log = <<>>
        /\ idx = 1
        /\ xpc = "step"

StepNext ==
    \/ ExecStepBeginOn(ProbeRuns)
    \/ RunnerCompletes
    \/ RunnerWaitFails
    \/ StepTimesOut

SpecStep == StepInit /\ [][StepNext]_vars

(***************************************************************************)
(* Properties of execute(), read off the final state and the history log.  *)
(***************************************************************************)
Doc == unwrap(job_document)
Returned == xpc = "returned" /\ is_some(job_document)
RegularIdx == 1..Len(Doc.steps)
HasFinal == is_some(Doc.final_step)

LogHas(ev, i) == \E k \in 1..Len(log) : log[k].ev = ev /\ log[k].step = i
\* the Command Runner was invoked for step i
RunInvoked(i) == LogHas("run", i)
\* execute_step was entered for step i
StepEntered(i) == \E k \in 1..Len(log) : log[k].step = i
\* execute_step returned for step i, with an output / with an error
StepReturnedOk(i) ==
    \E k \in 1..Len(log) :
        log[k].ev = "returned" /\ log[k].step = i /\ log[k].res.ok
StepReturnedErr(i) ==
    \E k \in 1..Len(log) :
        log[k].ev = "returned" /\ log[k].step = i /\ ~log[k].res.ok
\* step i failed: execute_step returned an error, or an output that
\* execute() evaluated as a failure
StepFailed(i) ==
    \E k \in 1..Len(log) :
        log[k].ev = "returned" /\ log[k].step = i /\ log[k].failed
StepSucceeded(i) ==
    \E k \in 1..Len(log) :
        log[k].ev = "returned" /\ log[k].step = i /\ ~log[k].failed
StepErrorKind(i, kind) ==
    \E k \in 1..Len(log) :
        /\ log[k].ev = "returned" /\ log[k].step = i
        /\ ~log[k].res.ok /\ log[k].res.kind = kind
IgnoreFlag(i) == ActionAt(Doc, i).ignore_step_failure = Some(TRUE)
\* a regular step that failed with ignoreStepFailure unset or false
Halting(i) == i \in RegularIdx /\ StepFailed(i) /\ ~IgnoreFlag(i)
\* a regular step that failed with ignoreStepFailure true
Ignored(i) == i \in RegularIdx /\ StepFailed(i) /\ IgnoreFlag(i)
OutputsNamed(name) == {k \in 1..Len(outputs) : outputs[k].step_name = name}

\* C2: once a regular step has failed with ignoreStepFailure unset or false,
\* overall_success is false, failed_step is that step's name, and neither a
\* later regular step nor the final step is ever entered or run.
C2_FailureHalts ==
    is_some(job_document) =>
        \A i \in RegularIdx :
            Halting(i) =>
                /\ overall_success = FALSE
                /\ failed_step = Some(Doc.steps[i].name)
                /\ \A j \in (i + 1)..FinalIdx(Doc) :
                       ~RunInvoked(j) /\ ~StepEntered(j)

C2_Witness ==
    /\ Returned
    /\ Len(Doc.steps) = 2
    /\ HasFinal
    /\ Halting(1)
    /\ StepErrorKind(1, "TimeoutError")
    /\ failed_step = Some("step1")

\* C3 (as claimed): when execute() has halted on a failing regular step whose
\* ignoreStepFailure is unset, outputs.len() equals the 1-based index of the
\* failing step.
C3_Original ==
    Returned =>
        \A i \in RegularIdx : Halting(i) => Len(outputs) = i

\* C3 (amended): when execute() has halted on a failing regular step i whose
\* ignoreStepFailure is unset, outputs.len() is the number of steps among
\* 1..i for which execute_step returned an output: the index i less the steps
\* that ended in an error (Command Runner error, timeout, probe error,
\* security rejection), which push no StepOutput.
C3_OutputsCountReturnedOutputs ==
    Returned =>
        \A i \in RegularIdx :
            Halting(i) =>
                Len(outputs) = i - Cardinality({j \in 1..i : StepReturnedErr(j)})

C3_Witness ==
    /\ Returned
    /\ Halting(2)
    /\ StepReturnedOk(2)
    /\ Ignored(1)
    /\ StepReturnedOk(1)
    /\ Len(outputs) = 2

\* C4: the final step is executed if and only if every regular step either
\* succeeded or failed with ignoreStepFailure set; after a regular step failed
\* without the flag the Command Runner is never invoked for the final step.
C4_FinalStepIff ==
    is_some(job_document) /\ HasFinal =>
        /\ Returned =>
              (StepEntered(FinalIdx(Doc))
                  <=> \A i \in RegularIdx : StepSucceeded(i) \/ Ignored(i))
        /\ (\E i \in RegularIdx : Halting(i)) => ~RunInvoked(FinalIdx(Doc))
        /\ StepEntered(FinalIdx(Doc)) =>
              \A i \in RegularIdx : StepSucceeded(i) \/ Ignored(i)

C4_Witness ==
    /\ Returned
    /\ HasFinal
    /\ Len(Doc.steps) = 2
    /\ Ignored(1)
    /\ StepSucceeded(2)
    /\ RunInvoked(FinalIdx(Doc))

\* C5: a failure of the final step always yields overall_success = false and
\* failed_step = the final step's name, whatever its ignoreStepFailure flag;
\* no StepOutput of the final step has ignored_failure = true.
C5_FinalFailureNeverIgnored ==
    is_some(job_document) /\ HasFinal =>
        /\ StepFailed(FinalIdx(Doc)) =>
              /\ overall_success = FALSE
              /\ failed_step = Some(unwrap(Doc.final_step).name)
        /\ \A k \in OutputsNamed(unwrap(Doc.final_step).name) :
              outputs[k].ignored_failure = FALSE

C5_Witness ==
    /\ Returned
    /\ HasFinal
    /\ IgnoreFlag(FinalIdx(Doc))
    /\ StepFailed(FinalIdx(Doc))
    /\ StepReturnedOk(FinalIdx(Doc))
    /\ Cardinality(OutputsNamed("final")) = 1

\* C6: after a regular step failed with ignoreStepFailure true, execution has
\* moved on to the next step (the next regular step, or the final step after
\* the last regular one), which is entered before execute() returns; and
\* overall_success is false only if some regular step failed without the
\* flag or the final step failed.
C6_IgnoredFailureContinues ==
    is_some(job_document) =>
        /\ \A i \in RegularIdx :
              Ignored(i) /\ (i < Len(Doc.steps) \/ HasFinal) =>
                  /\ idx > i
                  /\ Returned => StepEntered(i + 1)
        /\ overall_success = FALSE =>
              \/ \E i \in RegularIdx : Halting(i)
              \/ HasFinal /\ StepFailed(FinalIdx(Doc))

C6_Witness ==
    /\ Returned
    /\ overall_success = TRUE
    /\ Len(Doc.steps) = 2
    /\ HasFinal
    /\ Ignored(1) /\ StepErrorKind(1, "TimeoutError")
    /\ Ignored(2) /\ StepReturnedOk(2)
    /\ RunInvoked(FinalIdx(Doc))

\* C7 (as claimed): for every regular step whose failure was ignored, the
\* result contains a StepOutput of that step with ignored_failure = true.
C7_Original ==
    Returned =>
        \A i \in RegularIdx :
            Ignored(i) =>
                \E k \in OutputsNamed(Doc.steps[i].name) :
                    outputs[k].ignored_failure = TRUE

\* C7 (amended): for every regular step whose failure was ignored, if the
\* failure was an evaluated failure (execute_step returned an output) the
\* result contains exactly one StepOutput of that step, with ignored_failure =
\* true; if execute_step returned an error (Command Runner error, timeout,
\* probe error, security rejection) the result contains no StepOutput of that
\* step.
C7_IgnoredFailureRecorded ==
    Returned =>
        \A i \in RegularIdx :
            Ignored(i) =>
                LET named == OutputsNamed(Doc.steps[i].name)
                IN /\ StepReturnedOk(i) =>
                        /\ Cardinality(named) = 1
                        /\ \A k \in named : outputs[k].ignored_failure = TRUE
                   /\ StepReturnedErr(i) => named = {}

C7_Witness ==
    /\ Returned
    /\ Len(Doc.steps) = 2
    /\ Ignored(1) /\ StepReturnedOk(1)
    /\ Ignored(2) /\ StepReturnedErr(2)
    /\ Len(outputs) >= 1
    /\ outputs[1].ignored_failure = TRUE

\* C8: for a document with N >= 1 steps and no final step, if every step
\* ran and ended with exit code 0 and a stderr line count within its
\* allowStdErr threshold (0 when absent), execute() returns overall_success =
\* true, no failed_step, and exactly N StepOutputs, one per step, in order.
WithinThreshold(i, output) ==
    LET allow == ActionAt(Doc, i).allow_std_err
    IN output.stderr_line_count <= (IF allow = None THEN 0 ELSE allow[1])

EveryReturnIsSuccess ==
    \A k \in 1..Len(log) :
        log[k].ev = "returned" =>
            /\ log[k].res.ok
            /\ log[k].res.output.exit_code = 0
            /\ WithinThreshold(log[k].step, log[k].res.output)

C8_AllStepsSucceed ==
    (Returned /\ ~HasFinal /\ Len(Doc.steps) >= 1 /\ EveryReturnIsSuccess) =>
        /\ overall_success = TRUE
        /\ failed_step = None
        /\ Len(outputs) = Len(Doc.steps)
        /\ \A i \in RegularIdx :
              /\ outputs[i].step_name = Doc.steps[i].name
              /\ outputs[i].output.exit_code = 0
              /\ outputs[i].ignored_failure = FALSE

C8_Witness ==
    /\ Returned /\ ~HasFinal /\ Len(Doc.steps) = 2 /\ EveryReturnIsSuccess
    /\ Len(outputs) = 2
    /\ outputs[1].output.stderr_line_count = 1

\* C10 (as claimed): with security enabled, if the Security Policy rejected
\* the command of some step of the job, the Command Runner was invoked for no
\* step of that job.
C10_Original ==
    (is_some(job_document) /\ is_some(security)) =>
        ((\E i \in 1..FinalIdx(Doc) : LogHas("reject", i))
            => \A j \in 1..FinalIdx(Doc) : ~RunInvoked(j))

(***************************************************************************)
(* Properties of SecurityValidator::validate.                              *)
(***************************************************************************)
\* the letter cases of a character of a percent-encoded sequence
Cases(c) ==
    CASE c = "e" -> {"e", "E"}
      [] c = "f" -> {"f", "F"}
      [] c = "c" -> {"c", "C"}
      [] OTHER -> {c}

\* path holds the sequence pattern at some position, in any letter case
HoldsAnyCase(path, pattern) ==
    \E i \in 0..(Len(path) - Len(pattern)) :
        \A k \in 1..Len(pattern) : path[i + k] \in Cases(pattern[k])

HasDotDot(path) ==
    \E i \in 1..(Len(path) - 1) : path[i] = "." /\ path[i + 1] = "."
HasTilde(path) == \E i \in 1..Len(path) : path[i] = "~"
HasEncodedTraversal(path) ==
    \/ HoldsAnyCase(path, <<"%", "2", "e", "%", "2", "e">>)
    \/ HoldsAnyCase(path, <<"%", "2", "f">>)
    \/ HoldsAnyCase(path, <<"%", "5", "c">>)
NotAbsolute(path) == path = <<>> \/ path[1] # "/"

\* C9: validate() returns a SecurityError for every command whose path
\* contains "..", contains "~", contains %2e%2e, %2f or %5c in any letter
\* case, or does not start with "/", whatever the two allowlists hold, the
\* path itself included.
C9_TraversalAlwaysRejected ==
    (is_some(sec_result)
        /\ (\/ HasDotDot(sec_path)
            \/ HasTilde(sec_path)
            \/ HasEncodedTraversal(sec_path)
            \/ NotAbsolute(sec_path))) =>
        /\ unwrap(sec_result).ok = FALSE
        /\ unwrap(sec_result).kind = "SecurityError"

C9_Witness ==
    /\ is_some(sec_result)
    /\ sec_path = <<"/", "%", "2", "E", "%", "2", "e">>
    /\ unwrap(security).command_allowlist = <<sec_path>>
    /\ unwrap(security).path_allowlist = << <<"/">> >>
    /\ unwrap(sec_result).ok = FALSE

(***************************************************************************)
(* security/validation.rs: validate_job_document.                          *)
(***************************************************************************)
MaxCommandLen == 4096
MaxTimeoutSecs == 86400

\* str::trim().is_empty(): only whitespace characters, or none at all
TrimIsEmpty(s) == \A i \in 1..Len(s) : s[i] \in {" ", "\t", "\n"}

\* Mutant of validate_job_document: the final step is not chained.
AllStepsWithoutFinal(document) == document.steps

\* steps.iter().chain(final_step)
AllSteps(document) == document.steps \o document.final_step

RECURSIVE validate_steps(_, _)
validate_steps(all_steps, i) ==
    IF i > Len(all_steps) THEN Ok
    ELSE LET action == all_steps[i]
         IN IF action.action_type # "runCommand"
            THEN Err("InvalidJobDocument",
                     "Unsupported action type: " \o action.action_type
                         \o ". Only 'runCommand' is supported")
            ELSE IF Len(action.input.command) > MaxCommandLen
            THEN Err("InvalidJobDocument",
                     "Command too long (max 4096 characters)")
            ELSE IF TrimIsEmpty(action.input.command)
            THEN Err("InvalidJobDocument", "Command cannot be empty")
            ELSE IF /\ is_some(action.input.timeout)
                    /\ (\/ unwrap(action.input.timeout) = 0
                        \/ unwrap(action.input.timeout) > MaxTimeoutSecs)
            THEN Err("InvalidJobDocument",
                     "Timeout must be between 1 and 86400 seconds (24 hours)")
            ELSE validate_steps(all_steps, i + 1)

validate_job_document(document) ==
    IF document.version # "1.0"
    THEN Err("InvalidJobDocument",
             "Unsupported job document version: " \o document.version)
    ELSE IF Len(document.steps) = 0
    THEN Err("InvalidJobDocument", "Job document has no steps")
    ELSE validate_steps(AllSteps(document), 1)

(***************************************************************************)
(* models/models.rs: format_status_details and JobStatus.                  *)
(* A serde_json::Value is a record tagged with its JSON type; a JSON       *)
(* object is a function from its keys to Values.                           *)
(***************************************************************************)
JString(v) == [type |-> "string", value |-> v]
JNumber(v) == [type |-> "number", value |-> v]
JBool(v) == [type |-> "bool", value |-> v]

Digit(d) ==
    CASE d = 0 -> "0" [] d = 1 -> "1" [] d = 2 -> "2" [] d = 3 -> "3"
      [] d = 4 -> "4" [] d = 5 -> "5" [] d = 6 -> "6" [] d = 7 -> "7"
      [] d = 8 -> "8" [] d = 9 -> "9"

RECURSIVE Decimal(_)
Decimal(n) == IF n < 10 THEN Digit(n) ELSE Decimal(n \div 10) \o Digit(n % 10)

\* Display for the integer types
IntToString(n) == IF n < 0 THEN "-" \o Decimal(0 - n) ELSE Decimal(n)
BoolToString(b) == IF b THEN "true" ELSE "false"

\* the empty JSON object, and insertion of a key
EmptyMap == [k \in {} |-> JString("")]
Insert(map, key, value) ==
    [k \in DOMAIN map \cup {key} |-> IF k = key THEN value ELSE map[k]]
InsertIf(cond, map, key, value) ==
    IF cond THEN Insert(map, key, value) ELSE map

\* Mutant of StepSummary: stdout is included whatever include_stdout says.
StepSummaryAlwaysStdout(step, include_stdout) ==
    LET m1 == Insert(EmptyMap, "name", JString(step.step_name))
        m2 == Insert(m1, "exit_code", JNumber(step.output.exit_code))
        m3 == Insert(m2, "time_ms", JNumber(step.output.execution_time_ms))
        m4 == InsertIf(step.output.stdout # "",
                       m3, "stdout", JString(step.output.stdout))
        m5 == InsertIf(step.output.stderr # "",
                       m4, "stderr", JString(step.output.stderr))
    IN InsertIf(step.ignored_failure, m5, "ignored_failure", JBool(TRUE))

\* lines 179-213: the summary object of one step of a multi-step result
StepSummary(step, include_stdout) ==
    LET m1 == Insert(EmptyMap, "name", JString(step.step_name))
        m2 == Insert(m1, "exit_code", JNumber(step.output.exit_code))
        m3 == Insert(m2, "time_ms", JNumber(step.output.execution_time_ms))
        m4 == InsertIf(include_stdout /\ step.output.stdout # "",
                       m3, "stdout", JString(step.output.stdout))
        m5 == InsertIf(step.output.stderr # "",
                       m4, "stderr", JString(step.output.stderr))
    IN InsertIf(step.ignored_failure, m5, "ignored_failure", JBool(TRUE))

\* serde_json::to_string of the array of summaries: the string that encodes it
JsonEncoded(array) == [json |-> array]

\* Mutant of format_status_details: the summaries of a multi-step result are
\* inserted as the JSON array itself, not as the string that encodes it.
format_status_details_steps_as_array(result, include_stdout) ==
    LET d1 == Insert(EmptyMap, "steps_executed",
                     JString(IntToString(Len(result.outputs))))
        d2 == Insert(d1, "overall_success",
                     JString(BoolToString(result.overall_success)))
    IN IF Len(result.outputs) > 1
       THEN Insert(d2, "steps",
                   [type |-> "array",
                    value |-> [i \in 1..Len(result.outputs) |->
                                 StepSummary(result.outputs[i], include_stdout)]])
       ELSE d2

format_status_details(result, include_stdout) ==
    LET d1 == Insert(EmptyMap, "steps_executed",
                     JString(IntToString(Len(result.outputs))))
        d2 == Insert(d1, "overall_success",
                     JString(BoolToString(result.overall_success)))
        d3 == InsertIf(is_some(result.failed_step), d2, "failed_step",
                       JString(result.failed_step[1]))
    IN IF Len(result.outputs) > 1
       THEN Insert(d3, "steps",
                   JString(JsonEncoded(
                       [i \in 1..Len(result.outputs) |->
                           StepSummary(result.outputs[i], include_stdout)])))
       ELSE IF Len(result.outputs) = 0 THEN d3
       ELSE LET step_output == result.outputs[1]
                s1 == Insert(d3, "step_name", JString(step_output.step_name))
                s2 == Insert(s1, "exit_code",
                             JString(IntToString(step_output.output.exit_code)))
                s3 == Insert(s2, "execution_time_ms",
                             JString(IntToString(
                                 step_output.output.execution_time_ms)))
                s4 == InsertIf(include_stdout /\ step_output.output.stdout # "",
                               s3, "stdout", JString(step_output.output.stdout))
                s5 == InsertIf(step_output.output.stderr # "",
                               s4, "stderr", JString(step_output.output.stderr))
            IN InsertIf(step_output.ignored_failure, s5, "ignored_failure",
                        JString("true"))

JobExecutionResult(outs, success, failed) ==
    [outputs |-> outs, overall_success |-> success, failed_step |-> failed]

JobStatus(status, status_details) ==
    [status |-> status, status_details |-> status_details]

from_success(result, include_stdout) ==
    JobStatus("SUCCEEDED", format_status_details(result, include_stdout))

from_failure(result, include_stdout) ==
    JobStatus("FAILED", format_status_details(result, include_stdout))

\* Mutant of JobStatus::failed: the text is filed under another key.
failed_under_error_key(reason) ==
    JobStatus("FAILED", Insert(EmptyMap, "error", JString(reason)))

\* JobStatus::failed(reason, None, None): every caller passes no stdout/stderr
failed(reason) ==
    JobStatus("FAILED", Insert(EmptyMap, "reason", JString(reason)))

\* Display of DeviceOpsError (error.rs): the prefix of the kind, then the text
ErrorPrefix(kind) ==
    CASE kind = "IpcError" -> "IPC connection failed: "
      [] kind = "ExecutionError" -> "Job execution failed: "
      [] kind = "SecurityError" -> "Security validation failed: "
      [] kind = "ConfigError" -> "Configuration error: "
      [] kind = "TimeoutError" -> "Timeout: "
      [] kind = "InvalidJobDocument" -> "Invalid job document: "

ErrorToString(e) == ErrorPrefix(e.kind) \o e.reason

(***************************************************************************)
(* ipc/jobs.rs: JobHandler.                                                *)
(***************************************************************************)
LedgerCapacity == 100
ChannelCapacity == 100

Range(seq) == {seq[i] : i \in 1..Len(seq)}

\* Mutants of mark_job_processed.
mark_job_processed_evicts_newest(processed, job_id) ==
    IF job_id \in Range(processed)
    THEN [processed |-> processed, new |-> FALSE]
    ELSE LET pushed == Append(processed, job_id)
         IN [processed |-> IF Len(pushed) > LedgerCapacity
                           THEN SubSeq(pushed, 1, LedgerCapacity) ELSE pushed,
             new |-> TRUE]

mark_job_processed_no_check(processed, job_id) ==
    LET pushed == Append(processed, job_id)
    IN [processed |-> IF Len(pushed) > LedgerCapacity
                      THEN Tail(pushed) ELSE pushed,
        new |-> TRUE]

mark_job_processed_never_evicts(processed, job_id) ==
    IF job_id \in Range(processed)
    THEN [processed |-> processed, new |-> FALSE]
    ELSE [processed |-> Append(processed, job_id), new |-> TRUE]

\* mark_job_processed: the ledger after the call, and the value returned
\* (true for an identifier that is to be handled).
mark_job_processed(processed, job_id) ==
    IF job_id \in Range(processed)
    THEN [processed |-> processed, new |-> FALSE]
    ELSE LET pushed == Append(processed, job_id)
         IN [processed |-> IF Len(pushed) > LedgerCapacity
                           THEN Tail(pushed) ELSE pushed,
             new |-> TRUE]

Job(job_id, document) == [job_id |-> job_id, document |-> document]
Valid(job) == [kind |-> "Valid", job_id |-> job.job_id, job |-> Some(job),
               error |-> ""]
ParseError(job_id, error) ==
    [kind |-> "ParseError", job_id |-> job_id, job |-> None, error |-> error]

\* An entry of the history `lifecycle`.  ev is
\*   "accepted"      mark_job_processed returned true for job_id
\*   "discarded"     mark_job_processed returned false for job_id
\*   "status"        update_job_status(job_id, status) was called; sent tells
\*                   whether the publish succeeded
\*   "request_next"  request_next_job() was called; sent as above
\*   "subscribed"    subscribe_to_jobs() was called; sent tells its success
NoStatus == JobStatus("", EmptyMap)
Happened(ev, job_id, status, sent) ==
    [ev |-> ev, job_id |-> job_id, status |-> status, sent |-> sent]

\* a publish or subscription, which concerns no job, carries the identifier 0
Published(ev, sent) == Happened(ev, 0, NoStatus, sent)

\* update_job_status(job_id, status).await? followed by
\* request_next_job().await?: the second publish is attempted only when the
\* first succeeded.
ReportAndRequestNext(job_id, status, status_sent, next_sent) ==
    <<Happened("status", job_id, status, status_sent)>>
        \o (IF status_sent
            THEN <<Published("request_next", next_sent)>>
            ELSE <<>>)

ResetExec ==
    /\ job_document' = None
    /\ xpc' = "idle"
    /\ idx' = 0
    /\ outputs' = <<>>
    /\ overall_success' = TRUE
    /\ failed_step' = None
    /\ command' = None
    /\ log' = <<>>

\* Mutant of Startup: a failed request ends run().
StartupPropagates ==
    /\ pc = "startup"
    /\ \E sent \in BOOLEAN :
        /\ lifecycle' = Append(lifecycle,
                               Published("request_next", sent))
        /\ pc' = IF sent THEN "subscribe" ELSE "failed"
    /\ UNCHANGED <<sec_vars, security, exec_vars, processed_jobs, job_stream,
                   reconnect_stream, job_open, reconnect_open, cur_job,
                   delivered, signalled, served>>

\* run(), lines 57-60: the request for pending jobs at startup; a failure is
\* logged only.
Startup ==
    /\ pc = "startup"
    /\ \E sent \in BOOLEAN :
        lifecycle' = Append(lifecycle,
                            Published("request_next", sent))
    /\ pc' = "subscribe"
    /\ UNCHANGED <<sec_vars, security, exec_vars, processed_jobs, job_stream,
                   reconnect_stream, job_open, reconnect_open, cur_job,
                   delivered, signalled, served>>

\* Mutant of Subscribe: run() goes on to the loop without the subscriptions.
SubscribeFailureIgnored ==
    /\ pc = "subscribe"
    /\ \E subscribed \in BOOLEAN :
        /\ lifecycle' = Append(lifecycle,
                               Published("subscribed", subscribed))
        /\ pc' = "loop"
        /\ job_open' = subscribed
        /\ reconnect_open' = subscribed
    /\ UNCHANGED <<sec_vars, security, exec_vars, processed_jobs, job_stream,
                   reconnect_stream, cur_job, delivered,
                   signalled, served>>

\* run(), line 63: subscribe_to_jobs creates the two channels; on an error
\* run() returns it.
Subscribe ==
    /\ pc = "subscribe"
    /\ \E subscribed \in BOOLEAN :
        /\ lifecycle' = Append(lifecycle,
                               Published("subscribed", subscribed))
        /\ pc' = IF subscribed THEN "loop" ELSE "failed"
        /\ job_open' = subscribed
        /\ reconnect_open' = subscribed
    /\ UNCHANGED <<sec_vars, security, exec_vars, processed_jobs, job_stream,
                   reconnect_stream, cur_job, delivered,
                   signalled, served>>

\* Mutant of RecvParseError: an identifier whose report could not be
\* published is taken out of the ledger again.
RecvParseErrorForgetsUnreported ==
    /\ pc = "loop"
    /\ job_stream # <<>>
    /\ Head(job_stream).kind = "ParseError"
    /\ LET msg == Head(job_stream)
           marked == mark_job_processed(processed_jobs, msg.job_id)
           status == failed("Job document parsing failed: " \o msg.error)
       IN /\ job_stream' = Tail(job_stream)
          /\ IF marked.new
             THEN \E status_sent \in BOOLEAN, next_sent \in BOOLEAN :
                    /\ lifecycle' = lifecycle
                        \o <<Happened("accepted", msg.job_id, NoStatus, TRUE)>>
                        \o ReportAndRequestNext(msg.job_id, status,
                                                status_sent, next_sent)
                    /\ processed_jobs' = IF status_sent THEN marked.processed
                                         ELSE processed_jobs
             ELSE /\ lifecycle' = Append(lifecycle,
                                         Happened("discarded", msg.job_id,
                                                  NoStatus, TRUE))
                  /\ processed_jobs' = marked.processed
    /\ UNCHANGED <<sec_vars, security, exec_vars, pc, reconnect_stream,
                   job_open, reconnect_open, cur_job, delivered, signalled,
                   served>>

\* select!, lines 77-85: a ParseError is received and handled to the end:
\* mark_job_processed, then handle_parse_error for a new identifier.
RecvParseError ==
    /\ pc = "loop"
    /\ job_stream # <<>>
    /\ Head(job_stream).kind = "ParseError"
    /\ LET msg == Head(job_stream)
           marked == mark_job_processed(processed_jobs, msg.job_id)
           status == failed("Job document parsing failed: " \o msg.error)
       IN /\ processed_jobs' = marked.processed
          /\ job_stream' = Tail(job_stream)
          /\ IF marked.new
             THEN \E status_sent \in BOOLEAN, next_sent \in BOOLEAN :
                    lifecycle' = lifecycle
                        \o <<Happened("accepted", msg.job_id, NoStatus, TRUE)>>
                        \o ReportAndRequestNext(msg.job_id, status,
                                                status_sent, next_sent)
             ELSE lifecycle' = Append(lifecycle,
                                      Happened("discarded", msg.job_id,
                                               NoStatus, TRUE))
    /\ UNCHANGED <<sec_vars, security, exec_vars, pc, reconnect_stream,
                   job_open, reconnect_open, cur_job, delivered, signalled,
                   served>>

\* select!, lines 72-76, and handle_job up to its first suspension: a Valid
\* job is received; a duplicate is skipped; an invalid document is reported
\* FAILED; otherwise execute() is entered.
RecvJob ==
    /\ pc = "loop"
    /\ job_stream # <<>>
    /\ Head(job_stream).kind = "Valid"
    /\ LET job == unwrap(Head(job_stream).job)
           marked == mark_job_processed(processed_jobs, job.job_id)
           valid == validate_job_document(job.document)
       IN /\ processed_jobs' = marked.processed
          /\ job_stream' = Tail(job_stream)
          /\ IF ~marked.new
             THEN /\ lifecycle' = Append(lifecycle,
                                         Happened("discarded", job.job_id,
                                                  NoStatus, TRUE))
                  /\ UNCHANGED <<exec_vars, pc, cur_job>>
             ELSE IF ~valid.ok
             THEN /\ \E status_sent \in BOOLEAN, next_sent \in BOOLEAN :
                        lifecycle' = lifecycle
                            \o <<Happened("accepted", job.job_id, NoStatus,
                                          TRUE)>>
                            \o ReportAndRequestNext(
                                   job.job_id, failed(ErrorToString(valid)),
                                   status_sent, next_sent)
                  /\ UNCHANGED <<exec_vars, pc, cur_job>>
             ELSE /\ lifecycle' = Append(lifecycle,
                                         Happened("accepted", job.job_id,
                                                  NoStatus, TRUE))
                  /\ cur_job' = Some(job)
                  /\ pc' = "executing"
                  /\ EnterExecute(job.document)
                  /\ UNCHANGED live
    /\ UNCHANGED <<sec_vars, security, reconnect_stream, job_open,
                   reconnect_open, delivered, signalled, served>>

\* Mutant of result_status: overall_success is not consulted.
result_status_always_success(execution_result, include_stdout) ==
    from_success(execution_result, include_stdout)

\* handle_job, lines 149-166: the status of a result that execute() returned
result_status(execution_result, include_stdout) ==
    IF execution_result.overall_success
    THEN from_success(execution_result, include_stdout)
    ELSE from_failure(execution_result, include_stdout)

\* Result<JobExecutionResult>
OkResult(execution_result) == [ok |-> TRUE, result |-> execution_result]

\* Mutant of ExecuteReturn: the error of a step is returned as execute()'s.
ExecuteReturnPropagates ==
    LET errors == {k \in 1..Len(log) :
                      log[k].ev = "returned" /\ ~log[k].res.ok}
    IN IF errors # {}
       THEN log[CHOOSE k \in errors : \A j \in errors : k <= j].res
       ELSE OkResult(JobExecutionResult(outputs, overall_success, failed_step))

\* execute(), lines 272-276: what execute() returns once its steps are done.
ExecuteReturn ==
    OkResult(JobExecutionResult(outputs, overall_success, failed_step))

\* handle_job, lines 149-171: the match on what execute() returned.
final_status(result, include_stdout) ==
    IF result.ok
    THEN result_status(result.result, include_stdout)
    ELSE failed(ErrorToString(result))

\* Mutant of JobFinishes: the result of execute() is dropped, nothing is
\* published.
JobFinishesSilently ==
    /\ pc = "executing"
    /\ xpc = "returned"
    /\ pc' = "loop"
    /\ cur_job' = None
    /\ ResetExec
    /\ UNCHANGED <<sec_vars, security, live, processed_jobs, job_stream,
                   reconnect_stream, job_open, reconnect_open, lifecycle,
                   delivered, signalled, served>>

\* Mutant of JobFinishes: the error of a failed publish ends run().
JobFinishesPropagates ==
    /\ pc = "executing"
    /\ xpc = "returned"
    /\ LET job == unwrap(cur_job)
           result == ExecuteReturn
           include_stdout == unwrap_or(job.document.include_std_out, FALSE)
           status == final_status(result, include_stdout)
       IN \E status_sent \in BOOLEAN, next_sent \in BOOLEAN :
            /\ lifecycle' = lifecycle
                   \o ReportAndRequestNext(job.job_id, status, status_sent,
                                           next_sent)
            /\ pc' = IF status_sent /\ next_sent THEN "loop" ELSE "failed"
    /\ cur_job' = None
    /\ ResetExec
    /\ UNCHANGED <<sec_vars, security, live, processed_jobs, job_stream,
                   reconnect_stream, job_open, reconnect_open, delivered,
                   signalled, served>>

\* handle_job, lines 143-180: execute() has returned; its result becomes the
\* status, which is published, and the next job is requested.
JobFinishes ==
    /\ pc = "executing"
    /\ xpc = "returned"
    /\ LET job == unwrap(cur_job)
           result == ExecuteReturn
           include_stdout == unwrap_or(job.document.include_std_out, FALSE)
           status == final_status(result, include_stdout)
       IN \E status_sent \in BOOLEAN, next_sent \in BOOLEAN :
            lifecycle' = lifecycle
                \o ReportAndRequestNext(job.job_id, status, status_sent,
                                        next_sent)
    /\ pc' = "loop"
    /\ cur_job' = None
    /\ ResetExec
    /\ UNCHANGED <<sec_vars, security, live, processed_jobs, job_stream,
                   reconnect_stream, job_open, reconnect_open, delivered,
                   signalled, served>>

\* Mutant of RecvReconnect: the reconnection starts with an empty ledger.
RecvReconnectClearsLedger ==
    /\ pc = "loop"
    /\ reconnect_stream > 0
    /\ reconnect_stream' = reconnect_stream - 1
    /\ processed_jobs' = <<>>
    /\ \E sent \in BOOLEAN :
        lifecycle' = Append(lifecycle,
                            Published("request_next", sent))
    /\ UNCHANGED <<sec_vars, security, exec_vars, pc, job_stream, job_open,
                   reconnect_open, cur_job, delivered, signalled, served>>

\* Mutant of RecvReconnect: the signal is taken while a job is executing.
RecvReconnectPreempts ==
    /\ pc \in {"loop", "executing"}
    /\ reconnect_stream > 0
    /\ reconnect_stream' = reconnect_stream - 1
    /\ \E sent \in BOOLEAN :
        lifecycle' = Append(lifecycle,
                            Published("request_next", sent))
    /\ UNCHANGED <<sec_vars, security, exec_vars, pc, processed_jobs,
                   job_stream, job_open, reconnect_open, cur_job, delivered,
                   signalled, served>>

\* select!, lines 88-93: a reconnection signal is received.
RecvReconnect ==
    /\ pc = "loop"
    /\ reconnect_stream > 0
    /\ reconnect_stream' = reconnect_stream - 1
    /\ \E sent \in BOOLEAN :
        lifecycle' = Append(lifecycle,
                            Published("request_next", sent))
    /\ UNCHANGED <<sec_vars, security, exec_vars, pc, processed_jobs,
                   job_stream, job_open, reconnect_open, cur_job, delivered,
                   signalled, served>>

(***************************************************************************)
(* ipc/client.rs: the transport callbacks that feed the two channels.      *)
(***************************************************************************)
\* job_callback: a notification was parsed into a JobOrError and is sent on
\* the job channel (blocking_send waits while the channel is full).
DeliverJob(msg) ==
    /\ job_open
    /\ Len(job_stream) < ChannelCapacity
    /\ delivered < MaxDeliveries
    /\ job_stream' = Append(job_stream, msg)
    /\ delivered' = delivered + 1
    /\ UNCHANGED <<sec_vars, security, exec_vars, pc, processed_jobs,
                   reconnect_stream, job_open, reconnect_open, cur_job,
                   lifecycle, signalled, served>>

\* reconnect_callback: any payload on the reconnect topic sends ().
DeliverReconnect ==
    /\ reconnect_open
    /\ reconnect_stream < ChannelCapacity
    /\ signalled < MaxReconnects
    /\ reconnect_stream' = reconnect_stream + 1
    /\ signalled' = signalled + 1
    /\ UNCHANGED <<sec_vars, security, exec_vars, pc, processed_jobs,
                   job_stream, job_open, reconnect_open, cur_job, lifecycle,
                   delivered, served>>

(***************************************************************************)
(* Spec: the control loop of a handler built with security enabled and     *)
(* empty allowlists.  It starts freshly constructed, or in the loop after  *)
(* the identifiers 1..LedgerCapacity were each accepted and reported       *)
(* (served = LedgerCapacity), so that the next new identifier evicts.  The *)
(* transport delivers at most MaxDeliveries jobs or parse errors, for the  *)
(* oldest identifier and a fresh one, and at most MaxReconnects signals.   *)
(***************************************************************************)
FullLedger == [i \in 1..LedgerCapacity |-> i]
OldestId == Head(FullLedger)
FreshId == LedgerCapacity + 1
JobIds == {OldestId, FreshId}

HandlerDocuments ==
    { JobDocument("1.0", <<ShapedAction("step1", <<GoodCommand, None, None, None>>)>>,
                  None, Some(TRUE)),
      JobDocument("1.0", <<ShapedAction("step1", <<BadCommand, None, None, None>>)>>,
                  None, None),
      JobDocument("2.0", <<ShapedAction("step1", <<GoodCommand, None, None, None>>)>>,
                  None, None) }

Messages ==
    {Valid(Job(id, doc)) : id \in JobIds, doc \in HandlerDocuments}
        \cup {ParseError(id, "missing field") : id \in JobIds}


HandlerSecurity == Some(SecurityValidator(<<>>, <<>>))

Init ==
    /\ IdleSec
    /\ IdleExec
    /\ security = HandlerSecurity
    /\ job_stream = <<>>
    /\ reconnect_stream = 0
    /\ cur_job = None
    /\ delivered = 0
    /\ signalled = 0
    /\ lifecycle = <<>>
    /\ \/ /\ pc = "startup"
          /\ processed_jobs = <<>>
          /\ served = 0
          /\ job_open = FALSE
          /\ reconnect_open = FALSE
       \/ /\ pc = "loop"
          /\ processed_jobs = FullLedger
          /\ served = LedgerCapacity
          /\ job_open = TRUE
          /\ reconnect_open = TRUE

Next ==
    \/ Startup
    \/ Subscribe
    \/ RecvParseError
    \/ RecvJob
    \/ JobFinishes
    \/ RecvReconnect
    \/ \E msg \in Messages : DeliverJob(msg)
    \/ DeliverReconnect
    \/ (pc = "executing" /\ ExecNext)

Spec == Init /\ [][Next]_vars


(***************************************************************************)
(* Idempotency of the control loop.                                        *)
(***************************************************************************)
\* the events of one kind in lifecycle, in order
Events(ev) == SelectSeq(lifecycle, LAMBDA e : e.ev = ev)

\* the positions of job_id in the order in which mark_job_processed accepted
\* identifiers, the served ones first
AcceptedAt(job_id) ==
    LET accepted == Events("accepted")
    IN  (IF job_id \in 1..served THEN {job_id} ELSE {})
            \cup {served + k : k \in {i \in 1..Len(accepted) :
                                        accepted[i].job_id = job_id}}

\* calls of update_job_status for job_id, the served one included
StatusCount(job_id) ==
    (IF job_id \in 1..served THEN 1 ELSE 0)
        + Len(SelectSeq(lifecycle,
                        LAMBDA e : e.ev = "status" /\ e.job_id = job_id))

DiscardCount(job_id) ==
    Len(SelectSeq(lifecycle,
                  LAMBDA e : e.ev = "discarded" /\ e.job_id = job_id))

InHand(job_id) ==
    IF is_some(cur_job) /\ unwrap(cur_job).job_id = job_id THEN 1 ELSE 0

\* C1 as stated: however often and whenever an identifier is delivered,
\* update_job_status is called for it at most once.
C1_Original ==
    \A job_id \in JobIds : StatusCount(job_id) <= 1

\* C1, amended: every acceptance of an identifier is reported exactly once
\* (the job in hand not yet), and an identifier is accepted a second time
\* only after LedgerCapacity other identifiers were accepted since: a
\* delivery of an identifier still in the ledger is discarded without
\* validation, execution or report.
C1_OneReportWhileInLedger ==
    \A job_id \in JobIds :
        LET at == AcceptedAt(job_id)
        IN /\ StatusCount(job_id) + InHand(job_id) = Cardinality(at)
           /\ \A i \in at, j \in at : i < j => j - i > LedgerCapacity
           /\ DiscardCount(job_id) > 0 => at # {}

\* an identifier was delivered twice, reported once and discarded once
C1_Witness ==
    \E job_id \in JobIds :
        /\ DiscardCount(job_id) = 1
        /\ StatusCount(job_id) = 1
        /\ InHand(job_id) = 0
        /\ job_stream = <<>>
        /\ delivered = 2


(***************************************************************************)
(* Security rejections and the reported status.                            *)
(***************************************************************************)
\* the JobExecutionResult execute() has returned
Result == JobExecutionResult(outputs, overall_success, failed_step)

\* the Security Policy rejected the command of step i
Rejected(i) == LogHas("reject", i)

\* C11 (as claimed): with security enabled, a job in which the Security
\* Policy rejected the command of some step is reported FAILED, whichever
\* includeStdOut it asks for.
C11_Original ==
    (Returned /\ is_some(security)
        /\ \E i \in 1..FinalIdx(Doc) : Rejected(i)) =>
        \A include_stdout \in BOOLEAN :
            result_status(Result, include_stdout).status = "FAILED"


\* the error with which execute_step returned for step i
StepError(i) ==
    (CHOOSE k \in 1..Len(log) :
        log[k].ev = "returned" /\ log[k].step = i /\ ~log[k].res.ok).res

\* the texts that carry the error: its Display, or its message alone
ErrorTexts(e) == {ErrorToString(e), e.reason}

\* C12 (as claimed): when the job failed because the Security Policy rejected
\* the command of a step, the status handle_job publishes is FAILED and its
\* statusDetails hold a reason with the text of the security error.
C12_Original ==
    (Returned /\ is_some(security) /\ overall_success = FALSE) =>
        \A i \in 1..FinalIdx(Doc) :
            (Rejected(i) /\ failed_step = Some(ActionAt(Doc, i).name)) =>
                \A include_stdout \in BOOLEAN :
                    LET status == result_status(Result, include_stdout)
                    IN /\ status.status = "FAILED"
                       /\ "reason" \in DOMAIN status.status_details
                       /\ status.status_details["reason"].value
                              \in ErrorTexts(StepError(i))


(***************************************************************************)
(* The control loop and invalid documents.                                 *)
(***************************************************************************)
\* the handler takes a Valid job off the job channel
ReceivesJob ==
    /\ pc = "loop"
    /\ job_stream # <<>>
    /\ Head(job_stream).kind = "Valid"
    /\ job_stream' = Tail(job_stream)

\* the events the step appends to lifecycle
NewEvents == SubSeq(lifecycle', Len(lifecycle) + 1, Len(lifecycle'))

\* C13: when the handler receives a job whose identifier is not in the ledger
\* and whose document fails validate_job_document, the Step Executor is not
\* entered and no process is spawned; update_job_status is called once for
\* the job, with a FAILED status whose only detail is the reason, the text of
\* the validation error; and once that publish has gone through,
\* request_next_job is called next.
C13_InvalidDocumentReported ==
    [][ (/\ ReceivesJob
         /\ unwrap(Head(job_stream).job).job_id \notin Range(processed_jobs)
         /\ ~validate_job_document(unwrap(Head(job_stream).job).document).ok)
        =>
        LET job == unwrap(Head(job_stream).job)
            text == ErrorToString(validate_job_document(job.document))
        IN /\ pc' = "loop" /\ xpc' = "idle" /\ cur_job' = None
           /\ job_document' = None /\ log' = <<>> /\ live' = live
           /\ Len(NewEvents) \in {2, 3}
           /\ NewEvents[1].ev = "accepted" /\ NewEvents[1].job_id = job.job_id
           /\ NewEvents[2].ev = "status" /\ NewEvents[2].job_id = job.job_id
           /\ NewEvents[2].status.status = "FAILED"
           /\ DOMAIN NewEvents[2].status.status_details = {"reason"}
           /\ NewEvents[2].status.status_details["reason"] = JString(text)
           /\ NewEvents[2].sent <=>
                 (Len(NewEvents) = 3 /\ NewEvents[3].ev = "request_next")
      ]_vars

\* a job with a document of version 2.0 was reported FAILED with the text of
\* the validation error, and the next job was requested
C13_Witness ==
    \E k \in 1..(Len(lifecycle) - 1) :
        /\ lifecycle[k].ev = "status"
        /\ lifecycle[k].sent
        /\ lifecycle[k].status.status = "FAILED"
        /\ "reason" \in DOMAIN lifecycle[k].status.status_details
        /\ lifecycle[k].status.status_details["reason"].value
              = "Invalid job document: Unsupported job document version: 2.0"
        /\ lifecycle[k + 1].ev = "request_next"


(***************************************************************************)
(* SpecDoc: validate_job_document applied to every document of version     *)
(* 1.0 or 2.0 with at most MaxSteps regular steps and an optional final    *)
(* step, each drawn from DocShapes: a valid action, the boundary values of *)
(* the command length and of the timeout, and one violation of each rule.  *)
(***************************************************************************)
Repeat(c, n) == [i \in 1..n |-> c]

\* [action_type, command, timeout]
DocShapes ==
    { <<"runCommand", GoodCommand, None>>,
      <<"runCommand", GoodCommand, Some(1)>>,
      <<"runCommand", GoodCommand, Some(MaxTimeoutSecs)>>,
      <<"runCommand", Repeat("a", MaxCommandLen), None>>,
      <<"shell", GoodCommand, None>>,
      <<"runCommand", Repeat("a", MaxCommandLen + 1), None>>,
      <<"runCommand", <<" ", "\t">>, None>>,
      <<"runCommand", <<>>, None>>,
      <<"runCommand", GoodCommand, Some(0)>>,
      <<"runCommand", GoodCommand, Some(MaxTimeoutSecs + 1)>> }

DocAction(name, shape) ==
    JobAction(name, shape[1], JobInput(shape[2], shape[3]), None, None, None)

DocDocuments ==
    { JobDocument(version, steps, final, None) :
        version \in {"1.0", "2.0"},
        steps \in UNION { { [i \in 1..n |-> DocAction(StepName(i), shapes[i])] :
                              shapes \in [1..n -> DocShapes] } :
                          n \in 0..MaxSteps },
        final \in {None} \cup {Some(DocAction("final", f)) : f \in DocShapes} }

DocInit ==
    /\ sec_path = <<>>
    /\ sec_result = None
    /\ val_document \in {Some(d) : d \in DocDocuments}
    /\ val_result = None
    /\ IdleRaw
    /\ payload = None
    /\ security = None
    /\ IdleExec
    /\ IdleHandler

\* handle_job, line 131: validate_job_document(&job.document)
DocValidate ==
    /\ val_result = None
    /\ val_result' = Some(validate_job_document(unwrap(val_document)))
    /\ UNCHANGED <<sec_path, sec_result, val_document, raw_vars, payload,
                   security,
                   exec_vars, handler_vars>>

DocNext == DocValidate

SpecDoc == DocInit /\ [][DocNext]_vars

\* the rules a step's action must satisfy
ActionIsValid(action) ==
    /\ action.action_type = "runCommand"
    /\ Len(action.input.command) <= 4096
    /\ \E i \in 1..Len(action.input.command) :
          action.input.command[i] \notin {" ", "\t", "\n"}
    /\ \/ action.input.timeout = None
       \/ unwrap(action.input.timeout) \in 1..86400

DocumentIsValid(document) ==
    /\ document.version = "1.0"
    /\ Len(document.steps) >= 1
    /\ \A i \in 1..Len(document.steps) : ActionIsValid(document.steps[i])
    /\ is_some(document.final_step) =>
          ActionIsValid(unwrap(document.final_step))

\* C14: validate_job_document returns Ok exactly for the documents of version
\* "1.0" with at least one step in which every step, the final step
\* included, is a runCommand with a command of at most 4096 characters that
\* is not blank and a timeout that is absent or within 1..86400; for every
\* other document it returns InvalidJobDocument.
C14_ValidatesExactly ==
    is_some(val_result) =>
        /\ unwrap(val_result).ok <=> DocumentIsValid(unwrap(val_document))
        /\ ~unwrap(val_result).ok =>
              unwrap(val_result).kind = "InvalidJobDocument"

\* a document that passes every check for its steps is refused for its final
\* step alone
C14_Witness ==
    /\ is_some(val_result)
    /\ ~unwrap(val_result).ok
    /\ unwrap(val_document).version = "1.0"
    /\ Len(unwrap(val_document).steps) = 2
    /\ \A i \in 1..2 : ActionIsValid(unwrap(val_document).steps[i])
    /\ is_some(unwrap(val_document).final_step)
    /\ unwrap(unwrap(val_document).final_step).input.timeout
          = Some(MaxTimeoutSecs + 1)


(***************************************************************************)
(* The allowlists of SecurityValidator::validate.                          *)
(***************************************************************************)
PassesTraversalChecks(path) ==
    ~(HasDotDot(path) \/ HasTilde(path) \/ HasEncodedTraversal(path)
        \/ NotAbsolute(path))

\* path is entry or lies below it: the components of entry are the first
\* components of path
IsDescendant(path, entry) ==
    LET of_path == Components(path)
        of_entry == Components(entry)
    IN /\ Len(of_entry) <= Len(of_path)
       /\ \A i \in 1..Len(of_entry) : of_path[i] = of_entry[i]

\* C15: for a path that passes the traversal checks, validate() returns Ok
\* if and only if the command allowlist is empty or holds the path itself,
\* and the path allowlist is empty or holds an entry of which the path is a
\* descendant by whole components; with both lists empty it returns Ok.
C15_AllowlistsOptIn ==
    (is_some(sec_result) /\ PassesTraversalChecks(sec_path)) =>
        LET commands == unwrap(security).command_allowlist
            paths == unwrap(security).path_allowlist
        IN unwrap(sec_result).ok <=>
              /\ (commands = <<>> \/ \E k \in 1..Len(commands) :
                                        commands[k] = sec_path)
              /\ (paths = <<>> \/ \E k \in 1..Len(paths) :
                                     IsDescendant(sec_path, paths[k]))

\* /aa is refused under the path allowlist [/a], of which it is no descendant
\* although its text begins with /a
C15_Witness ==
    /\ is_some(sec_result)
    /\ sec_path = <<"/", "a", "a">>
    /\ unwrap(security).command_allowlist = <<>>
    /\ unwrap(security).path_allowlist = << <<"/", "a">> >>
    /\ ~unwrap(sec_result).ok


(***************************************************************************)
(* The statusDetails maps.                                                 *)
(***************************************************************************)
MaxStatusKeys == 10

WithinChannelLimits(status_details) ==
    /\ Cardinality(DOMAIN status_details) <= MaxStatusKeys
    /\ \A key \in DOMAIN status_details : status_details[key].type = "string"

\* the errors with which execute_step returned
StepErrors ==
    {log[k].res : k \in {i \in 1..Len(log) :
                            log[i].ev = "returned" /\ ~log[i].res.ok}}

\* C16: the statusDetails of format_status_details, for the result execute()
\* returned and either include_stdout, have at most 10 keys, each with a
\* string value; and so have those of JobStatus::failed for the text of any
\* error.
C16_StatusDetailsWithinLimits ==
    Returned =>
        /\ \A include_stdout \in BOOLEAN :
              WithinChannelLimits(format_status_details(Result, include_stdout))
        /\ \A e \in StepErrors :
              WithinChannelLimits(failed(ErrorToString(e)).status_details)

\* a one-output result with stdout, stderr and a failed_step beside it, and
\* a step that returned an error
C16_Witness ==
    /\ Returned
    /\ Len(outputs) = 1
    /\ StepErrors # {}
    /\ Cardinality(DOMAIN format_status_details(Result, TRUE)) = 8


(***************************************************************************)
(* The dedup ledger.                                                       *)
(***************************************************************************)
\* the identifiers in the order in which mark_job_processed accepted them
AcceptOrder ==
    LET accepted == Events("accepted")
    IN SubSeq(FullLedger, 1, served)
          \o [k \in 1..Len(accepted) |-> accepted[k].job_id]

\* the last n elements of a sequence (all of it when it is shorter)
LastN(seq, n) ==
    SubSeq(seq, IF Len(seq) > n THEN Len(seq) - n + 1 ELSE 1, Len(seq))

\* C17: the ledger always is the last LedgerCapacity accepted identifiers in
\* the order of their acceptance: it never holds more than LedgerCapacity,
\* and an acceptance beyond the capacity removes the earliest accepted of
\* those held and nothing else.
C17_LedgerKeepsLatest ==
    /\ Len(processed_jobs) <= LedgerCapacity
    /\ processed_jobs = LastN(AcceptOrder, LedgerCapacity)

\* the 101st and the 102nd identifier were accepted: the two oldest are gone
C17_Witness ==
    /\ Len(AcceptOrder) = LedgerCapacity + 2
    /\ processed_jobs = SubSeq(FullLedger, 3, LedgerCapacity)
                            \o <<FreshId, OldestId>>


(***************************************************************************)
(* Timeouts and the spawned process.                                       *)
(***************************************************************************)
\* C18 (as claimed): no process spawned for a step is still running once
\* execute_step has returned TimeoutError for that step.
C18_Original ==
    \A i \in live : ~StepErrorKind(i, "TimeoutError")


(***************************************************************************)
(* One job at a time.                                                      *)
(***************************************************************************)
IsPrefix(s, t) == Len(s) <= Len(t) /\ SubSeq(t, 1, Len(s)) = s

\* the events of lifecycle' that report the job in hand: its status, and the
\* request of the next job when the status went through
ReportsJobInHand ==
    /\ Len(NewEvents) \in {1, 2}
    /\ NewEvents[1].ev = "status"
    /\ NewEvents[1].job_id = unwrap(cur_job).job_id
    /\ Len(NewEvents) = 2 <=> NewEvents[1].sent
    /\ Len(NewEvents) = 2 => NewEvents[2].ev = "request_next"

\* C19: there is one job in hand at most, and while it is executing the
\* handler takes nothing from either channel, accepts or discards no
\* identifier and publishes nothing; what arrives is appended to its channel.
\* The first thing the handler does then is to publish the status of the job
\* in hand and, that done, to request the next job.
C19_NoOverlap ==
    [][ pc = "executing" =>
          /\ is_some(cur_job)
          /\ IsPrefix(job_stream, job_stream')
          /\ reconnect_stream' >= reconnect_stream
          /\ processed_jobs' = processed_jobs
          /\ \/ /\ pc' = "executing"
                /\ cur_job' = cur_job
                /\ lifecycle' = lifecycle
             \/ /\ pc' = "loop"
                /\ cur_job' = None
                /\ job_stream' = job_stream
                /\ reconnect_stream' = reconnect_stream
                /\ ReportsJobInHand
      ]_vars

\* a job is executing, its process running, while a second job and a
\* reconnection signal wait in their channels
C19_Witness ==
    /\ pc = "executing"
    /\ xpc = "running"
    /\ Len(job_stream) = 1
    /\ delivered = 2
    /\ reconnect_stream >= 1


(***************************************************************************)
(* Failures inside a job and the control loop.                             *)
(***************************************************************************)
InLoop == pc \in {"loop", "executing"}

\* the step published, or tried to publish, a status
ReportsStatus ==
    \E k \in 1..Len(NewEvents) : NewEvents[k].ev = "status"

C21_Original ==
    [][ \A k \in 1..Len(NewEvents) :
            NewEvents[k].ev = "status" =>
                /\ k < Len(NewEvents)
                /\ NewEvents[k + 1].ev = "request_next"
      ]_vars


(***************************************************************************)
(* FairSpec: the control loop under the scheduling the runtime gives it:   *)
(* a call of the Command Runner returns or is cut off by the step timeout, *)
(* and the task of run() is polled again once execute() can continue.      *)
(***************************************************************************)
FairSpec ==
    /\ Spec
    /\ WF_vars(pc = "executing" /\ ExecNext)
    /\ WF_vars(JobFinishes)

FinalTags == {"SUCCEEDED", "FAILED"}

\* every acceptance of job_id has had its publish attempt, with a final tag
Reported(job_id) ==
    /\ StatusCount(job_id) = Cardinality(AcceptedAt(job_id))
    /\ \A k \in 1..Len(lifecycle) :
          (lifecycle[k].ev = "status" /\ lifecycle[k].job_id = job_id)
              => lifecycle[k].status.status \in FinalTags

\* C22: an identifier that mark_job_processed accepted and whose status was
\* not yet handed to update_job_status eventually has it handed over, tagged
\* SUCCEEDED or FAILED.
C22_AcceptedIsReported ==
    \A job_id \in JobIds : (~Reported(job_id)) ~> Reported(job_id)

\* a job that went through the Command Runner was reported
C22_Witness ==
    /\ pc = "loop"
    /\ Reported(FreshId)
    /\ \E k \in 1..Len(lifecycle) :
          /\ lifecycle[k].ev = "status"
          /\ lifecycle[k].job_id = FreshId
          /\ "exit_code" \in DOMAIN lifecycle[k].status.status_details


(***************************************************************************)
(* Reconnection signals.                                                   *)
(***************************************************************************)
\* the handler takes a signal off the reconnect channel
ReceivesReconnect == reconnect_stream' < reconnect_stream

\* C23: the step that handles a reconnection signal calls request_next_job
\* once and update_job_status not at all, leaves the ledger, the job channel
\* and the Step Executor as they were (no command is run), and every
\* identifier the transport delivers that the ledger held is still refused by
\* mark_job_processed.
C23_ReconnectOnlyRequests ==
    [][ ReceivesReconnect =>
          /\ reconnect_stream' = reconnect_stream - 1
          /\ Len(NewEvents) = 1
          /\ NewEvents[1].ev = "request_next"
          /\ processed_jobs' = processed_jobs
          /\ job_stream' = job_stream
          /\ pc = "loop" /\ pc' = "loop"
          /\ xpc' = xpc /\ log' = log /\ live' = live /\ cur_job' = None
          /\ \A job_id \in JobIds \cap Range(processed_jobs) :
                ~mark_job_processed(processed_jobs', job_id).new
      ]_vars

\* after a reconnection signal was handled, an identifier of the ledger was
\* delivered again and discarded
C23_Witness ==
    /\ served = LedgerCapacity
    /\ \E j \in 1..Len(lifecycle), k \in 1..Len(lifecycle) :
          /\ j < k
          /\ lifecycle[j].ev = "request_next"
          /\ (j = 1 \/ lifecycle[j - 1].ev # "status")
          /\ lifecycle[k].ev = "discarded"


(***************************************************************************)
(* Startup.                                                                *)
(***************************************************************************)
\* C24: a handler started afresh calls request_next_job once, before
\* anything else; whether that publish went through or not it goes on to
\* subscribe, and it is in the loop exactly when the subscription succeeded:
\* the failed request never ends run().
C24_StartupRequestNotFatal ==
    served = 0 =>
        /\ pc = "startup" <=> lifecycle = <<>>
        /\ pc = "subscribe" <=> Len(lifecycle) = 1
        /\ lifecycle # <<>> => lifecycle[1].ev = "request_next"
        /\ Len(lifecycle) >= 2 =>
              /\ lifecycle[2].ev = "subscribed"
              /\ lifecycle[2].sent <=> InLoop
              /\ ~lifecycle[2].sent <=> pc = "failed"

\* the request at startup failed, the loop was entered all the same, and a
\* reconnection signal made the handler request the pending jobs again
C24_Witness ==
    /\ served = 0
    /\ pc = "loop"
    /\ Len(lifecycle) = 3
    /\ lifecycle[1].ev = "request_next" /\ ~lifecycle[1].sent
    /\ lifecycle[3].ev = "request_next"
    /\ signalled = 1 /\ reconnect_stream = 0


(***************************************************************************)
(* SpecLoop: the select! loop of run() over channels whose senders can go  *)
(* away.  recv() yields None once a channel is closed and drained, which   *)
(* disables its arm; the else arm runs when both arms are disabled.  The   *)
(* transport delivers parse errors and jobs as in Spec, and drops either   *)
(* sender at any time.                                                     *)
(***************************************************************************)
\* the sender of the job channel is dropped; what is buffered stays
CloseJobChannel ==
    /\ job_open
    /\ job_open' = FALSE
    /\ UNCHANGED <<sec_vars, security, exec_vars, pc, processed_jobs,
                   job_stream, reconnect_stream, reconnect_open, cur_job,
                   lifecycle, delivered, signalled, served>>

\* the sender of the reconnect channel is dropped
CloseReconnectChannel ==
    /\ reconnect_open
    /\ reconnect_open' = FALSE
    /\ UNCHANGED <<sec_vars, security, exec_vars, pc, processed_jobs,
                   job_stream, reconnect_stream, job_open, cur_job,
                   lifecycle, delivered, signalled, served>>

\* recv() on the channel would yield None
JobChannelEnded == ~job_open /\ job_stream = <<>>
ReconnectChannelEnded == ~reconnect_open /\ reconnect_stream = 0

\* Mutant of Exit: the loop is left as soon as one channel has ended.
ExitWhenEitherEnded ==
    /\ pc = "loop"
    /\ JobChannelEnded \/ ReconnectChannelEnded
    /\ pc' = "done"
    /\ UNCHANGED <<sec_vars, security, exec_vars, processed_jobs, job_stream,
                   reconnect_stream, job_open, reconnect_open, cur_job,
                   lifecycle, delivered, signalled, served>>

\* select!, lines 94-97, and line 101: both patterns failed, the loop is
\* left and run() returns Ok(()).
Exit ==
    /\ pc = "loop"
    /\ JobChannelEnded
    /\ ReconnectChannelEnded
    /\ pc' = "done"
    /\ UNCHANGED <<sec_vars, security, exec_vars, processed_jobs, job_stream,
                   reconnect_stream, job_open, reconnect_open, cur_job,
                   lifecycle, delivered, signalled, served>>

LoopMessages ==
    { Valid(Job(FreshId, doc)) : doc \in HandlerDocuments }
        \cup { ParseError(FreshId, "missing field") }

LoopInit ==
    /\ IdleSec
    /\ IdleExec
    /\ security = HandlerSecurity
    /\ job_stream = <<>>
    /\ reconnect_stream = 0
    /\ cur_job = None
    /\ delivered = 0
    /\ signalled = 0
    /\ lifecycle = <<>>
    /\ pc = "loop"
    /\ processed_jobs = <<>>
    /\ served = 0
    /\ job_open = TRUE
    /\ reconnect_open = TRUE

LoopNext ==
    \/ RecvParseError
    \/ RecvJob
    \/ JobFinishes
    \/ RecvReconnect
    \/ \E msg \in LoopMessages : DeliverJob(msg)
    \/ DeliverReconnect
    \/ (pc = "executing" /\ ExecNext)
    \/ CloseJobChannel
    \/ CloseReconnectChannel
    \/ Exit

SpecLoop == LoopInit /\ [][LoopNext]_vars

\* C25: run() has returned only with both channels closed and drained; while
\* it waits, whatever is buffered in a channel can be taken, the other
\* channel closed or not, and the loop can be left exactly when both
\* channels have ended.
C25_ExitsWhenBothClosed ==
    /\ pc = "done" => JobChannelEnded /\ ReconnectChannelEnded
    /\ pc = "loop" =>
          /\ job_stream # <<>> => ENABLED (RecvJob \/ RecvParseError)
          /\ reconnect_stream > 0 => ENABLED RecvReconnect
          /\ (ENABLED Exit) <=> (JobChannelEnded /\ ReconnectChannelEnded)

\* run() returned after the job channel was closed first and a reconnection
\* signal was served last
C25_Witness ==
    /\ pc = "done"
    /\ delivered >= 1
    /\ signalled >= 1
    /\ Len(lifecycle) >= 2
    /\ lifecycle[Len(lifecycle)].ev = "request_next"
    /\ lifecycle[Len(lifecycle) - 1].ev = "request_next"


(***************************************************************************)
(* The tag of a published status.                                          *)
(***************************************************************************)
\* the status events among those the step appends to lifecycle
NewStatuses == SelectSeq(NewEvents, LAMBDA e : e.ev = "status")

\* C26: every status handed to update_job_status is tagged SUCCEEDED or
\* FAILED, never IN_PROGRESS; the status of a job that was executed is
\* SUCCEEDED exactly when the result of execute() has overall_success true;
\* the status published on receipt, for a parse error or an invalid
\* document, is FAILED.
C26_TagFollowsResult ==
    [][ \A k \in 1..Len(NewStatuses) :
          /\ NewStatuses[k].status.status \in FinalTags
          /\ pc = "executing" =>
                (NewStatuses[k].status.status = "SUCCEEDED" <=> overall_success)
          /\ pc = "loop" => NewStatuses[k].status.status = "FAILED"
      ]_vars

\* a job that succeeded, a job that failed and a parse error were reported
C26_Witness ==
    /\ \E k \in 1..Len(lifecycle) :
          /\ lifecycle[k].ev = "status"
          /\ lifecycle[k].status.status = "SUCCEEDED"
    /\ \E k \in 1..Len(lifecycle) :
          /\ lifecycle[k].ev = "status"
          /\ lifecycle[k].status.status = "FAILED"
          /\ "overall_success" \in DOMAIN lifecycle[k].status.status_details


(***************************************************************************)
(* The allowStdErr threshold.                                              *)
(***************************************************************************)
\* C27 (as claimed): a step whose command returned an output is taken as
\* succeeded exactly when the exit code is 0 and the number of stderr lines
\* does not exceed allowStdErr (0 when absent), compared as integers.
C27_Original ==
    is_some(job_document) =>
        \A k \in 1..Len(log) :
            (log[k].ev = "returned" /\ log[k].res.ok) =>
                LET output == log[k].res.output
                    allowed == unwrap_or(
                        ActionAt(Doc, log[k].step).allow_std_err, 0)
                IN (~log[k].failed) <=>
                      /\ output.exit_code = 0
                      /\ output.stderr_line_count <= allowed


(***************************************************************************)
(* executor/command.rs: SystemCommandRunner::limit_output and the tail of  *)
(* run().  An output is held as the Vec<&str> `lines` that                 *)
(* full_output.lines() yields: count lines, the first one `first`, all the *)
(* others `rest`.  A line is prefix one-byte chars followed by chars of    *)
(* width bytes each (2..4 for text outside ASCII, 3 for the U+FFFD that    *)
(* from_utf8_lossy puts in place of an invalid byte).                      *)
(***************************************************************************)
MAX_OUTPUT_LINES == 1000
MAX_OUTPUT_BYTES == 32 * 1024

Line(prefix, chars, width) ==
    [prefix |-> prefix, chars |-> chars, width |-> width]
Ascii(n) == Line(n, 0, 1)
\* str::len(): the length in bytes
LineLen(line) == line.prefix + line.chars * line.width

Lines(count, first, rest) == [count |-> count, first |-> first, rest |-> rest]
LineAt(lines, i) == IF i = 1 THEN lines.first ELSE lines.rest

ExceededMarker == "\n[Output truncated: exceeded limit]"
SizeMarker == "\n[Output truncated: size limit]"

\* the byte offset at which line i (1-based) of the pushed text starts, the
\* lines being joined by one '\n'
LineStart(lines, i) ==
    IF i = 1 THEN 0
    ELSE LineLen(lines.first) + 1 + (i - 2) * (LineLen(lines.rest) + 1)

\* result.len() after line i was pushed
LenAfter(lines, i) ==
    IF i = 0 THEN 0 ELSE LineStart(lines, i) + LineLen(LineAt(lines, i))

Min(set) == CHOOSE m \in set : \A n \in set : m <= n

\* lines 101-112: the loop over lines.iter().take(lines_to_take) breaks off
\* after the first line that brings result.len() above MAX_OUTPUT_BYTES -
\* 100.  Yields the length reached, the number of lines pushed and whether
\* the loop broke off.
PushLines(lines, lines_to_take) ==
    LET over == {i \in 1..lines_to_take :
                    LenAfter(lines, i) > MAX_OUTPUT_BYTES - 100}
    IN IF over = {}
       THEN [len |-> LenAfter(lines, lines_to_take),
             pushed |-> lines_to_take, broke |-> FALSE]
       ELSE [len |-> LenAfter(lines, Min(over)), pushed |-> Min(over),
             broke |-> TRUE]

\* the line of the `pushed` lines that holds byte offset pos (its end, where
\* the next '\n' stands, included)
LineHolding(lines, pushed, pos) ==
    Min({i \in 1..pushed : pos <= LenAfter(lines, i)})

\* str::is_char_boundary(pos) for the text of the first `pushed` lines,
\* whatever follows it being ASCII
is_char_boundary(lines, pushed, pos) ==
    IF pos >= LenAfter(lines, pushed) THEN TRUE
    ELSE LET i == LineHolding(lines, pushed, pos)
             line == LineAt(lines, i)
             offset == pos - LineStart(lines, i)
         IN \/ offset <= line.prefix
            \/ (offset - line.prefix) % line.width = 0

\* the strings limit_output can return: `whole` complete lines, `partial`
\* bytes of the line after them, then the markers; and the panic of
\* String::truncate off a char boundary
Limited(bytes, whole, partial, markers, truncated) ==
    [panic |-> FALSE, bytes |-> bytes, whole |-> whole, partial |-> partial,
     markers |-> markers, truncated |-> truncated]
Panic == [panic |-> TRUE]

\* lines 119-122: result.truncate(new_len), then the size marker
Truncated(lines, pushed, new_len) ==
    LET i == LineHolding(lines, pushed, new_len)
        offset == new_len - LineStart(lines, i)
        complete == offset = LineLen(LineAt(lines, i))
    IN Limited(new_len + Len(SizeMarker),
               IF complete THEN i ELSE i - 1,
               IF complete THEN 0 ELSE offset,
               <<SizeMarker>>, TRUE)

\* Mutant of limit_output: the line limit does not set the flag.
limit_output_line_limit_unflagged(lines) ==
    LET lines_to_take == IF lines.count > MAX_OUTPUT_LINES
                         THEN MAX_OUTPUT_LINES ELSE lines.count
        loop == PushLines(lines, lines_to_take)
        truncated == loop.broke
        marked == IF truncated THEN loop.len + Len(ExceededMarker)
                  ELSE loop.len
    IN IF marked > MAX_OUTPUT_BYTES
       THEN IF is_char_boundary(lines, loop.pushed, MAX_OUTPUT_BYTES - 50)
            THEN Truncated(lines, loop.pushed, MAX_OUTPUT_BYTES - 50)
            ELSE Panic
       ELSE Limited(marked, loop.pushed, 0,
                    IF truncated THEN <<ExceededMarker>> ELSE <<>>,
                    truncated)

limit_output(lines) ==
    LET lines_to_take == IF lines.count > MAX_OUTPUT_LINES
                         THEN MAX_OUTPUT_LINES ELSE lines.count
        loop == PushLines(lines, lines_to_take)
        truncated == lines.count > MAX_OUTPUT_LINES \/ loop.broke
        marked == IF truncated THEN loop.len + Len(ExceededMarker)
                  ELSE loop.len
    IN IF marked > MAX_OUTPUT_BYTES
       THEN IF is_char_boundary(lines, loop.pushed, MAX_OUTPUT_BYTES - 50)
            THEN Truncated(lines, loop.pushed, MAX_OUTPUT_BYTES - 50)
            ELSE Panic
       ELSE Limited(marked, loop.pushed, 0,
                    IF truncated THEN <<ExceededMarker>> ELSE <<>>,
                    truncated)


\* str::lines().count() of a string limit_output returned: a newline at the
\* very end (an empty last line and no marker) ends the line before it
lines_count(lines, limited) ==
    IF limited.markers = <<>> /\ limited.partial = 0 /\ limited.whole >= 1
          /\ LineLen(LineAt(lines, limited.whole)) = 0
    THEN limited.whole - 1
    ELSE limited.whole + (IF limited.partial > 0 THEN 1 ELSE 0)
            + Len(limited.markers)

\* run(), lines 57-59: both streams are limited, then the stderr lines are
\* counted; a panic in either call unwinds run()
RunTail(stdout, stderr) ==
    LET out == limit_output(stdout)
        err == limit_output(stderr)
    IN IF out.panic \/ err.panic THEN Panic
       ELSE [panic |-> FALSE, stdout |-> out, stderr |-> err,
             stderr_line_count |-> lines_count(stderr, err)]

(***************************************************************************)
(* SpecRun: the tail of SystemCommandRunner::run applied to the outputs of *)
(* a process: one stream drawn from RawOutputs (0 to 1500 lines; short     *)
(* lines, lines around the byte limits, lines of multi-byte chars), the    *)
(* other from RawFew.                                                      *)
(***************************************************************************)
RawCounts == {1, 2, 1000, 1001, 1500}
RawFirsts ==
    { Ascii(0), Ascii(10), Ascii(720), Ascii(760), Ascii(32668), Ascii(32669),
      Ascii(32733), Ascii(32734), Ascii(32768), Ascii(32769), Ascii(40000),
      Line(0, 11000, 3), Line(1, 11000, 3), Line(2, 11000, 3),
      Line(0, 9000, 4), Line(0, 17000, 2) }
RawRests == { Ascii(0), Ascii(10), Ascii(31), Ascii(32), Line(0, 20, 3) }
NoOutput == Lines(0, Ascii(0), Ascii(0))
RawOutputs ==
    {NoOutput} \cup
    { Lines(count, first, rest) :
        count \in RawCounts, first \in RawFirsts, rest \in RawRests }
RawFew ==
    { NoOutput, Lines(1500, Ascii(10), Ascii(10)),
      Lines(1, Ascii(MAX_OUTPUT_BYTES + 1), Ascii(0)) }

RunInit ==
    /\ sec_path = <<>>
    /\ sec_result = None
    /\ val_document = None
    /\ val_result = None
    /\ \E many \in RawOutputs, few \in RawFew :
          \/ raw_stdout = Some(many) /\ raw_stderr = Some(few)
          \/ raw_stdout = Some(few) /\ raw_stderr = Some(many)
    /\ run_result = None
    /\ payload = None
    /\ security = None
    /\ IdleExec
    /\ IdleHandler

RunLimits ==
    /\ run_result = None
    /\ run_result' = Some(RunTail(unwrap(raw_stdout), unwrap(raw_stderr)))
    /\ UNCHANGED <<sec_path, sec_result, val_document, val_result, raw_stdout,
                   raw_stderr, payload, security, exec_vars, handler_vars>>

RunNext == RunLimits

SpecRun == RunInit /\ [][RunNext]_vars


(***************************************************************************)
(* Output capping.                                                         *)
(***************************************************************************)
\* the two streams of a call of run() that returned: what went in and what
\* limit_output made of it
Streams ==
    IF is_some(run_result) /\ ~unwrap(run_result).panic
    THEN { [raw |-> unwrap(raw_stdout), limited |-> unwrap(run_result).stdout],
           [raw |-> unwrap(raw_stderr), limited |-> unwrap(run_result).stderr] }
    ELSE {}

\* exactly the first MAX_OUTPUT_LINES lines, then the one marker line
FirstThousandAndMarker(raw) ==
    Limited(LenAfter(raw, MAX_OUTPUT_LINES) + Len(ExceededMarker),
            MAX_OUTPUT_LINES, 0, <<ExceededMarker>>, TRUE)

\* C28 (as claimed): an output of more than 1000 lines whose first 1000
\* lines, joined, fit in MAX_OUTPUT_BYTES comes back as exactly these 1000
\* lines followed by one truncation marker line, with the flag true.
C28_Original ==
    \A s \in Streams :
        (s.raw.count > MAX_OUTPUT_LINES
            /\ LenAfter(s.raw, MAX_OUTPUT_LINES) <= MAX_OUTPUT_BYTES)
        => s.limited = FirstThousandAndMarker(s.raw)

\* C28, amended: so it does when the first 1000 lines, joined, take at most
\* MAX_OUTPUT_BYTES - 100 bytes, for stdout and for stderr, whatever the
\* other stream holds.
C28_FirstThousandLines ==
    \A s \in Streams :
        (s.raw.count > MAX_OUTPUT_LINES
            /\ LenAfter(s.raw, MAX_OUTPUT_LINES) <= MAX_OUTPUT_BYTES - 100)
        => s.limited = FirstThousandAndMarker(s.raw)

\* 1500 lines of stderr came back as 1000 lines and the marker, beside a
\* stdout that was cut by the size limit
C28_Witness ==
    /\ is_some(run_result)
    /\ ~unwrap(run_result).panic
    /\ unwrap(raw_stderr) = Lines(1500, Ascii(10), Ascii(10))
    /\ unwrap(run_result).stderr.whole = MAX_OUTPUT_LINES
    /\ unwrap(run_result).stderr.markers = <<ExceededMarker>>
    /\ unwrap(run_result).stderr.truncated
    /\ unwrap(run_result).stderr_line_count = MAX_OUTPUT_LINES + 1
    /\ unwrap(run_result).stdout.markers = <<SizeMarker>>


\* C29 (as claimed): limit_output returns for every input, and what it
\* returns is at most MAX_OUTPUT_BYTES long, marker included; a single line
\* longer than that comes back cut, ending with the size-limit marker, with
\* the flag true.
C29_Original ==
    is_some(run_result) =>
        /\ ~unwrap(run_result).panic
        /\ \A s \in Streams :
              /\ s.limited.bytes <= MAX_OUTPUT_BYTES
              /\ (s.raw.count = 1 /\ LineLen(s.raw.first) > MAX_OUTPUT_BYTES)
                    => /\ s.limited.markers = <<SizeMarker>>
                       /\ s.limited.truncated


(***************************************************************************)
(* The layout of the statusDetails.                                        *)
(***************************************************************************)
SummaryKeys == {"steps_executed", "overall_success", "failed_step"}

\* the conditional fields of one StepOutput, under the names of either layout
OptionalKeys(step, include_stdout) ==
    (IF include_stdout /\ step.output.stdout # "" THEN {"stdout"} ELSE {})
        \cup (IF step.output.stderr # "" THEN {"stderr"} ELSE {})
        \cup (IF step.ignored_failure THEN {"ignored_failure"} ELSE {})

FlatKeys(step, include_stdout) ==
    {"step_name", "exit_code", "execution_time_ms"}
        \cup OptionalKeys(step, include_stdout)

\* the 'steps' field is the encoding of one summary per StepOutput, in order
StepsFieldFor(field, outs, include_stdout) ==
    /\ field.type = "string"
    /\ Len(field.value.json) = Len(outs)
    /\ \A i \in 1..Len(outs) :
          LET summary == field.value.json[i]
          IN /\ DOMAIN summary = {"name", "exit_code", "time_ms"}
                    \cup OptionalKeys(outs[i], include_stdout)
             /\ summary["name"] = JString(outs[i].step_name)
             /\ summary["exit_code"].value = outs[i].output.exit_code
             /\ summary["time_ms"].value = outs[i].output.execution_time_ms

LayoutFor(result, include_stdout) ==
    LET details == format_status_details(result, include_stdout)
        per_step == DOMAIN details \ SummaryKeys
    IN /\ details["steps_executed"]
              = JString(IntToString(Len(result.outputs)))
       /\ details["overall_success"]
              = JString(BoolToString(result.overall_success))
       /\ "failed_step" \in DOMAIN details <=> is_some(result.failed_step)
       /\ is_some(result.failed_step) =>
              details["failed_step"] = JString(unwrap(result.failed_step))
       /\ Len(result.outputs) = 0 => per_step = {}
       /\ Len(result.outputs) = 1 =>
              /\ per_step = FlatKeys(result.outputs[1], include_stdout)
              /\ details["step_name"] = JString(result.outputs[1].step_name)
       /\ Len(result.outputs) >= 2 =>
              /\ per_step = {"steps"}
              /\ StepsFieldFor(details["steps"], result.outputs,
                               include_stdout)

\* C30: for the result execute() returned and either include_stdout,
\* format_status_details emits steps_executed and overall_success, failed_step
\* exactly when the result has one, the flat fields of the one StepOutput and
\* no 'steps' when there is exactly one, and only the encoded 'steps' array,
\* one summary per StepOutput in order, when there are two or more.
C30_DetailsLayout ==
    [](Returned =>
           \A include_stdout \in BOOLEAN : LayoutFor(Result, include_stdout))

\* a result of three StepOutputs, one of them an ignored failure, another
\* with text on stdout
C30_Witness ==
    /\ Returned
    /\ Len(outputs) = 3
    /\ \E i \in 1..3 : outputs[i].ignored_failure
    /\ \E i \in 1..3 : outputs[i].output.stdout # ""
    /\ is_some(failed_step)

(***************************************************************************)
(* The elevation probes of a step that names a run_as_user.                *)
(***************************************************************************)
\* the k-th entry of the log records probes of which one ran and failed
NegativeProbe(k) ==
    /\ log[k].ev = "probe"
    /\ \E n \in 1..Len(log[k].res.probes) : log[k].res.probes[n] = "failure"

AllProbesSucceeded(k) ==
    /\ log[k].ev = "probe"
    /\ log[k].res.probes = <<"success", "success", "success">>

\* C32: when one of the probes of a step that names a run_as_user ran and
\* came back negative (no sudo, unknown user, no passwordless sudo), the step
\* does not fail for it: the next thing execute_step does is the security
\* check of, and then the Command Runner's call on, a Command without
\* run_as_user.  The Command of a step carries a run_as_user only after all
\* three probes of that step succeeded, and then it is the action's.
C32_NegativeProbeRunsAsSelf ==
    \A k \in 1..Len(log) :
        /\ NegativeProbe(k) =>
              /\ k < Len(log)
              /\ log[k + 1].step = log[k].step
              /\ \/ log[k + 1].ev = "reject"
                 \/ /\ log[k + 1].ev = "run"
                    /\ log[k + 1].res.command.run_as_user = None
        /\ (log[k].ev = "run" /\ is_some(log[k].res.command.run_as_user)) =>
              /\ k > 1
              /\ log[k - 1].step = log[k].step
              /\ AllProbesSucceeded(k - 1)
              /\ log[k].res.command.run_as_user
                    = ActionAt(Doc, log[k].step).run_as_user

\* execute() has returned after a step for which sudo and the user exist but
\* sudo -n was refused: its command ran as the current identity and returned
\* an output
C32_Witness ==
    /\ Returned
    /\ \E k \in 1..Len(log) :
        /\ log[k].ev = "probe"
        /\ log[k].res.probes = <<"success", "success", "failure">>
        /\ k < Len(log)
        /\ log[k + 1].ev = "run"
        /\ log[k + 1].res.command.run_as_user = None
        /\ StepReturnedOk(log[k].step)

\* the OS processes spawned on behalf of step i: the elevation probes whose
\* output() call returned an exit status, and the runner's call
ProcessSpawnedFor(i) ==
    \/ RunInvoked(i)
    \/ \E k \in 1..Len(log) :
          /\ log[k].ev = "probe"
          /\ log[k].step = i
          /\ \E n \in 1..Len(log[k].res.probes) :
                log[k].res.probes[n] # "io_error"

\* C33 (as claimed): with security enabled, no OS process is spawned on
\* behalf of a step whose command the Security Policy rejects, the elevation
\* probes of a step that sets runAsUser included.
C33_Original ==
    is_some(security) =>
        \A i \in 1..FinalIdx(Doc) : Rejected(i) => ~ProcessSpawnedFor(i)

\* the step error that execute() absorbed for step i, if execute_step
\* returned one: an ignored regular step leaves the result as it was, any
\* other one makes the result a failure that names the step
Absorbed(i) ==
    StepReturnedErr(i) =>
        \/ Ignored(i)
        \/ /\ ~overall_success
           /\ failed_step = Some(ActionAt(Doc, i).name)

\* C34: whatever the probes, the Security Policy and the Command Runner did,
\* execute() returns Ok with the accumulated JobExecutionResult: the error of
\* a step is absorbed into overall_success and failed_step, and the status
\* handle_job derives is from_success or from_failure of that result, never
\* the failed(error text) of its Err arm.
C34_ExecuteAlwaysOk ==
    [](Returned =>
           LET result == ExecuteReturn
           IN /\ result.ok
              /\ result.result = Result
              /\ \A i \in 1..FinalIdx(Doc) : Absorbed(i)
              /\ \A include_stdout \in BOOLEAN :
                    final_status(result, include_stdout)
                       = IF overall_success
                         THEN from_success(Result, include_stdout)
                         ELSE from_failure(Result, include_stdout))

\* execute() has returned after execute_step returned an Err that was not
\* ignored
C34_Witness ==
    /\ Returned
    /\ ~overall_success
    /\ \E i \in 1..FinalIdx(Doc) : StepReturnedErr(i) /\ ~Ignored(i)

\* the steps execute_step was called for
Attempted == {i \in 1..FinalIdx(Doc) : StepEntered(i)}

LastAttempted == CHOOSE i \in Attempted : \A j \in Attempted : j <= i

\* C38: in the JobExecutionResult execute() returns, failed_step is present
\* exactly when overall_success is false, and then it is the name of the last
\* step execute_step was called for.
C38_FailedStepIffFailure ==
    [](Returned =>
           /\ is_some(Result.failed_step) <=> ~Result.overall_success
           /\ is_some(Result.failed_step) =>
                 /\ Attempted # {}
                 /\ Result.failed_step = Some(ActionAt(Doc, LastAttempted).name))

\* execute() stopped on the first of two regular steps and names it
C38_Witness ==
    /\ Returned
    /\ Len(Doc.steps) = 2
    /\ Attempted = {1}
    /\ failed_step = Some(ActionAt(Doc, 1).name)
    /\ ~overall_success

\* the steps the Command Runner was invoked for, in the order of the calls
RunSteps ==
    LET runs == SelectSeq(log, LAMBDA e : e.ev = "run")
    IN [k \in 1..Len(runs) |-> runs[k].step]

StrictlyIncreasing(seq) ==
    \A a \in 1..Len(seq) : \A b \in 1..Len(seq) : a < b => seq[a] < seq[b]

\* the steps of the document that carry the names of outputs, in the order
\* of outputs (0 for a name that is no step's)
OutputSteps ==
    [k \in 1..Len(outputs) |->
        LET named == {i \in 1..FinalIdx(Doc) :
                         /\ i <= Len(Doc.steps) \/ HasFinal
                         /\ ActionAt(Doc, i).name = outputs[k].step_name}
        IN IF named = {} THEN 0 ELSE CHOOSE i \in named : TRUE]

\* C39: during one execute() the Command Runner is invoked at most once per
\* step, in document order with the final step last, hence at most
\* len(steps) + 1 times; the names of outputs are those of document steps the
\* runner was invoked for, in document order with the final step last.
C39_OneRunPerStepInOrder ==
    [](is_some(job_document) =>
           LET run_steps == RunSteps
               output_steps == OutputSteps
           IN /\ StrictlyIncreasing(run_steps)
              /\ Len(run_steps) <= Len(Doc.steps) + 1
              /\ \A k \in 1..Len(run_steps) :
                    /\ run_steps[k] \in 1..FinalIdx(Doc)
                    /\ run_steps[k] = FinalIdx(Doc) => HasFinal
              /\ StrictlyIncreasing(output_steps)
              /\ \A k \in 1..Len(output_steps) :
                    \E j \in 1..Len(run_steps) : run_steps[j] = output_steps[k])

\* execute() has returned after running both regular steps and the final
\* step, the first of which timed out and left no output
C39_Witness ==
    /\ Returned
    /\ Len(Doc.steps) = 2
    /\ RunSteps = <<1, 2, 3>>
    /\ OutputSteps = <<2, 3>>

\* the k-th StepOutput passes evaluate_step_success for the step it is named
\* after
OutputPasses(k) ==
    evaluate_step_success(outputs[k].output, ActionAt(Doc, OutputSteps[k]))

\* C40: in a JobExecutionResult with overall_success true every StepOutput
\* passes the success evaluation or has ignored_failure true; and in every
\* result a StepOutput with ignored_failure true is that of a regular step
\* whose ignoreStepFailure is true and whose output fails the evaluation.
C40_SuccessMeansPassedOrIgnored ==
    Returned =>
        /\ overall_success =>
              \A k \in 1..Len(outputs) :
                  OutputPasses(k) \/ outputs[k].ignored_failure
        /\ \A k \in 1..Len(outputs) :
              outputs[k].ignored_failure =>
                  /\ OutputSteps[k] \in RegularIdx
                  /\ IgnoreFlag(OutputSteps[k])
                  /\ ~OutputPasses(k)

\* a successful result with one output that passed and one whose failure
\* was ignored
C40_Witness ==
    /\ Returned
    /\ overall_success
    /\ \E k \in 1..Len(outputs) : outputs[k].ignored_failure
    /\ \E k \in 1..Len(outputs) :
          ~outputs[k].ignored_failure /\ OutputPasses(k)

\* subscribe_to_jobs was called, as the k-th event of the handler
SubscribedAt(k) == k \in 1..Len(lifecycle) /\ lifecycle[k].ev = "subscribed"

\* something of the subscriptions exists: a channel has its sender, or the
\* transport has handed a notification or a signal to a callback
Subscriptions ==
    job_open \/ reconnect_open \/ delivered > 0 \/ signalled > 0

\* C37: a handler started afresh publishes its request for pending jobs
\* before it subscribes: subscribe_to_jobs is its second event, after that
\* request, and no subscription exists before it.  When subscribing fails
\* run() has returned the error: nothing was received, marked, executed or
\* published after it.
C37_RequestBeforeSubscribe ==
    served = 0 =>
        /\ \A k \in 1..Len(lifecycle) :
              SubscribedAt(k) =>
                  k = 2 /\ lifecycle[1] = Published("request_next",
                                                    lifecycle[1].sent)
        /\ Subscriptions => SubscribedAt(2) /\ lifecycle[2].sent
        /\ (SubscribedAt(2) /\ ~lifecycle[2].sent) =>
              /\ pc = "failed"
              /\ Len(lifecycle) = 2
              /\ ~Subscriptions
              /\ processed_jobs = <<>>
              /\ cur_job = None
              /\ xpc = "idle"

\* subscribing failed after the request at startup went out
C37_Witness ==
    /\ served = 0
    /\ pc = "failed"
    /\ SubscribedAt(2)
    /\ lifecycle[1].ev = "request_next" /\ lifecycle[1].sent

\* an identifier accepted at the positions `at` of the order of acceptance is
\* among the LedgerCapacity most recently accepted ones of the first n
RecentAmong(n, at) ==
    \E p \in at : p <= n /\ n - p < LedgerCapacity

\* C36: mark_job_processed refuses an identifier exactly when it is among
\* the LedgerCapacity most recently accepted ones: so it did at every call
\* so far (the events "accepted" and "discarded" of the handler).  The
\* ledger holds no identifier twice.  An identifier accepted again after
\* LedgerCapacity others pushed it out is executed and reported again: it
\* has a report for each acceptance (that of the job in hand is to come).
C36_DuplicateIffRecent ==
    [](LET at == [job_id \in JobIds |-> AcceptedAt(job_id)]
           accepts == {k \in 1..Len(lifecycle) : lifecycle[k].ev = "accepted"}
       IN /\ Cardinality(Range(processed_jobs)) = Len(processed_jobs)
          /\ \A k \in 1..Len(lifecycle) :
                lifecycle[k].ev \in {"accepted", "discarded"} =>
                   (lifecycle[k].ev = "discarded"
                       <=> RecentAmong(
                              served + Cardinality({a \in accepts : a < k}),
                              at[lifecycle[k].job_id]))
          /\ \A job_id \in JobIds :
                Cardinality(at[job_id]) > 1 =>
                   StatusCount(job_id) + InHand(job_id)
                      = Cardinality(at[job_id]))

\* the oldest identifier of a full ledger was pushed out by a fresh one, then
\* redelivered: it was accepted a second time and reported a second time
C36_Witness ==
    /\ served = LedgerCapacity
    /\ AcceptOrder = FullLedger \o <<FreshId, OldestId>>
    /\ StatusCount(OldestId) = 2
    /\ ~mark_job_processed(processed_jobs, OldestId).new

\* the events of the handler after the k-th that concern job_id
LaterEvents(k, job_id) ==
    SelectSeq(SubSeq(lifecycle, k + 1, Len(lifecycle)),
              LAMBDA e : e.job_id = job_id)

\* the number of identifiers accepted after the k-th event
AcceptedSince(k) ==
    Len(SelectSeq(SubSeq(lifecycle, k + 1, Len(lifecycle)),
                  LAMBDA e : e.ev = "accepted"))

\* update_job_status went through for job_id at some event after the k-th
ReportedSince(k, job_id) ==
    \E j \in (k + 1)..Len(lifecycle) :
        /\ lifecycle[j].ev = "status"
        /\ lifecycle[j].job_id = job_id
        /\ lifecycle[j].sent

\* C35: the identifier of the job being executed is already in the ledger;
\* an identifier accepted fewer than LedgerCapacity acceptances ago is in the
\* ledger whatever became of it (parse error, invalid document, failed
\* publish), and all that happened for it since is its one call of
\* update_job_status followed by discarded redeliveries: when that call
\* failed the identifier has no report and is not tried again.
C35_LedgerKeepsFailedJobs ==
    [](LET held == Range(processed_jobs)
       IN /\ is_some(cur_job) => unwrap(cur_job).job_id \in held
          /\ \A k \in 1..Len(lifecycle) :
                (lifecycle[k].ev = "accepted"
                    /\ AcceptedSince(k) < LedgerCapacity)
                => LET job_id == lifecycle[k].job_id
                       later == LaterEvents(k, job_id)
                   IN /\ job_id \in held
                      /\ \A n \in 1..Len(later) :
                            later[n].ev
                               = IF n = 1 THEN "status" ELSE "discarded"
                      /\ (later # <<>> /\ ~later[1].sent) =>
                            ~ReportedSince(k, job_id))

\* the report of a parse error could not be published, and the redelivery of
\* its identifier was discarded
C35_Witness ==
    \E k \in 1..Len(lifecycle) :
        /\ lifecycle[k].ev = "accepted"
        /\ LET later == LaterEvents(k, lifecycle[k].job_id)
           IN /\ Len(later) = 2
              /\ later[1].ev = "status" /\ ~later[1].sent
              /\ "reason" \in DOMAIN later[1].status.status_details
              /\ later[1].status.status_details["reason"]
                    = JString("Job document parsing failed: missing field")
              /\ later[2].ev = "discarded"

(***************************************************************************)
(* ipc/client.rs: parse_job_notification and job_callback.                 *)
(*                                                                         *)
(* A payload is either not JSON, or the JSON value it spells: null, a      *)
(* number, a string, a bool, an array, or an object as the sequence of its *)
(* members in the order of the text (a key can occur twice).  serde's      *)
(* derived Deserialize is followed member by member, so that the error it  *)
(* reports is the first one it meets.                                      *)
(***************************************************************************)
JNull == [type |-> "null"]
JArray(items) == [type |-> "array", items |-> items]
JObject(members) == [type |-> "object", members |-> members]

NotJson == [json |-> FALSE]
Json(value) == [json |-> TRUE, value |-> value]

\* the types the structs of models.rs are made of
TString == [k |-> "String"]
TInt(signed) == [k |-> "int", signed |-> signed]
TBool == [k |-> "bool"]
TOption(of) == [k |-> "Option", of |-> of]
TVec(of) == [k |-> "Vec", of |-> of]
TStruct(name) == [k |-> "Struct", name |-> name]

\* a field of a struct: its key in JSON (serde rename), its type, and
\* whether it carries #[serde(default)]
Field(key, ty, default) == [key |-> key, ty |-> ty, default |-> default]

\* models.rs, lines 4-81: the structs a notification is made of
Fields(name) ==
    CASE name = "JobNotification" ->
            << Field("timestamp", TOption(TInt(TRUE)), FALSE),
               Field("execution", TOption(TStruct("JobExecution")), FALSE) >>
      [] name = "JobExecution" ->
            << Field("jobId", TString, FALSE),
               Field("status", TString, FALSE),
               Field("queuedAt", TOption(TInt(TRUE)), FALSE),
               Field("jobDocument", TStruct("JobDocument"), FALSE) >>
      [] name = "JobDocument" ->
            << Field("version", TString, FALSE),
               Field("steps", TVec(TStruct("JobStep")), FALSE),
               Field("finalStep", TOption(TStruct("JobStep")), TRUE),
               Field("includeStdOut", TOption(TBool), TRUE) >>
      [] name = "JobStep" ->
            << Field("action", TStruct("JobAction"), FALSE) >>
      [] name = "JobAction" ->
            << Field("name", TString, FALSE),
               Field("type", TString, FALSE),
               Field("input", TStruct("JobInput"), FALSE),
               Field("runAsUser", TOption(TString), TRUE),
               Field("ignoreStepFailure", TOption(TBool), TRUE),
               Field("allowStdErr", TOption(TInt(TRUE)), TRUE) >>
      [] name = "JobInput" ->
            << Field("command", TString, FALSE),
               Field("args", TOption(TVec(TString)), TRUE),
               Field("timeout", TOption(TInt(FALSE)), FALSE) >>

Keys(name) == {Fields(name)[i].key : i \in 1..Len(Fields(name))}

FieldOf(name, key) ==
    LET fields == Fields(name)
    IN fields[CHOOSE i \in 1..Len(fields) : fields[i].key = key]

\* The value of a struct, from the values of its fields.  As elsewhere in
\* this module a JobStep is its JobAction, and args are not kept.
Build(name, f) ==
    CASE name = "JobNotification" ->
            [timestamp |-> f["timestamp"], execution |-> f["execution"]]
      [] name = "JobExecution" ->
            [job_id |-> f["jobId"], status |-> f["status"],
             queued_at |-> f["queuedAt"], job_document |-> f["jobDocument"]]
      [] name = "JobDocument" ->
            JobDocument(f["version"], f["steps"], f["finalStep"],
                        f["includeStdOut"])
      [] name = "JobStep" -> f["action"]
      [] name = "JobAction" ->
            JobAction(f["name"], f["type"], f["input"], f["runAsUser"],
                      f["ignoreStepFailure"], f["allowStdErr"])
      [] name = "JobInput" -> JobInput(f["command"], f["timeout"])

DeOk(value) == [ok |-> TRUE, value |-> value]

\* serde_json::Error, by its message (the quotes around a field name and the
\* position in the text are left out)
JsonError(message) == Err("Json", message)

InvalidType(v, expected) ==
    JsonError("invalid type: " \o v.type \o ", expected " \o expected)

\* the end of visit_map: a field that did not occur is None when it is an
\* Option, else the error names the first such field in declaration order
Finish(name, acc) ==
    LET fields == Fields(name)
        missing == {i \in 1..Len(fields) :
                       /\ fields[i].key \notin DOMAIN acc
                       /\ fields[i].ty.k # "Option"}
    IN IF missing # {}
       THEN JsonError("missing field "
                         \o fields[CHOOSE i \in missing :
                                      \A j \in missing : i <= j].key)
       ELSE DeOk(Build(name, [key \in Keys(name) |->
                                 IF key \in DOMAIN acc THEN acc[key]
                                 ELSE None]))

RECURSIVE Deserialize(_, _), DeserializeSeq(_, _, _, _)
RECURSIVE DeserializeMap(_, _, _, _), DeserializeTuple(_, _, _, _)

\* Deserialize::deserialize for the type ty from the JSON value v
Deserialize(v, ty) ==
    CASE ty.k = "String" ->
            IF v.type = "string" THEN DeOk(v.value)
            ELSE InvalidType(v, "a string")
      [] ty.k = "int" ->
            IF v.type # "number" THEN InvalidType(v, "an integer")
            ELSE IF ~ty.signed /\ v.value < 0
            THEN JsonError("invalid value: negative integer")
            ELSE DeOk(v.value)
      [] ty.k = "bool" ->
            IF v.type = "bool" THEN DeOk(v.value)
            ELSE InvalidType(v, "a boolean")
      [] ty.k = "Option" ->
            IF v.type = "null" THEN DeOk(None)
            ELSE LET d == Deserialize(v, ty.of)
                 IN IF d.ok THEN DeOk(Some(d.value)) ELSE d
      [] ty.k = "Vec" ->
            IF v.type = "array"
            THEN DeserializeSeq(v.items, ty.of, 1, <<>>)
            ELSE InvalidType(v, "a sequence")
      [] ty.k = "Struct" ->
            IF v.type = "object"
            THEN DeserializeMap(v.members, ty.name, 1, EmptyMap)
            ELSE IF v.type = "array"
            THEN DeserializeTuple(v.items, ty.name, 1, EmptyMap)
            ELSE InvalidType(v, "struct " \o ty.name)

\* Vec<T>: the elements in order, up to the first error
DeserializeSeq(items, of, i, acc) ==
    IF i > Len(items) THEN DeOk(acc)
    ELSE LET d == Deserialize(items[i], of)
         IN IF d.ok THEN DeserializeSeq(items, of, i + 1, Append(acc, d.value))
            ELSE d

\* visit_map of a derived struct: the members in order; an unknown key is
\* skipped, a known key that occurs again is an error
DeserializeMap(members, name, i, acc) ==
    IF i > Len(members) THEN Finish(name, acc)
    ELSE LET key == members[i][1]
         IN IF key \notin Keys(name)
            THEN DeserializeMap(members, name, i + 1, acc)
            ELSE IF key \in DOMAIN acc
            THEN JsonError("duplicate field " \o key)
            ELSE LET d == Deserialize(members[i][2], FieldOf(name, key).ty)
                 IN IF d.ok
                    THEN DeserializeMap(members, name, i + 1,
                                        Insert(acc, key, d.value))
                    ELSE d

\* visit_seq of a derived struct: the fields by position; an element that is
\* not there is an error unless the field has a default, one too many too
DeserializeTuple(items, name, i, acc) ==
    LET fields == Fields(name)
    IN IF i > Len(fields)
       THEN IF Len(items) > Len(fields)
            THEN JsonError("invalid length, expected struct " \o name)
            ELSE Finish(name, acc)
       ELSE IF i > Len(items)
       THEN IF fields[i].default
            THEN DeserializeTuple(items, name, i + 1, acc)
            ELSE JsonError("invalid length, expected struct " \o name)
       ELSE LET d == Deserialize(items[i], fields[i].ty)
            IN IF d.ok
               THEN DeserializeTuple(items, name, i + 1,
                                     Insert(acc, fields[i].key, d.value))
               ELSE d

\* serde_json::from_slice::<T>
from_slice(bytes, ty) ==
    IF bytes.json THEN Deserialize(bytes.value, ty)
    ELSE JsonError("expected value")

\* serde_json::Value::get with a string index: the member of an object (the
\* last one when the key occurs again), None for a missing key or another
\* kind of value
Get(v, key) ==
    IF v.type # "object" THEN None
    ELSE LET at == {i \in 1..Len(v.members) : v.members[i][1] = key}
         IN IF at = {} THEN None
            ELSE Some(v.members[CHOOSE i \in at : \A j \in at : j <= i][2])

as_str(v) == IF v.type = "string" THEN Some(v.value) ELSE None

\* impl From<JobNotification> for Option<Job>
JobFromNotification(notification) ==
    IF is_some(notification.execution)
    THEN LET exec == unwrap(notification.execution)
         IN Some(Job(exec.job_id, exec.job_document))
    ELSE None

\* Mutant of parse_job_notification: a payload that does not deserialize is
\* dropped.
parse_job_notification_drops_malformed(bytes) ==
    LET parsed == from_slice(bytes, TStruct("JobNotification"))
    IN IF parsed.ok
       THEN LET job == JobFromNotification(parsed.value)
            IN IF is_some(job) THEN Some(Valid(unwrap(job))) ELSE None
       ELSE None

\* parse_job_notification: Some(Valid), Some(ParseError) or None
parse_job_notification(bytes) ==
    LET parsed == from_slice(bytes, TStruct("JobNotification"))
    IN IF parsed.ok
       THEN LET job == JobFromNotification(parsed.value)
            IN IF is_some(job) THEN Some(Valid(unwrap(job))) ELSE None
       ELSE IF ~bytes.json THEN None
       ELSE LET execution == Get(bytes.value, "execution")
                job_id == IF is_some(execution)
                          THEN Get(unwrap(execution), "jobId") ELSE None
                id_str == IF is_some(job_id) THEN as_str(unwrap(job_id))
                          ELSE None
            IN IF is_some(id_str)
               THEN Some(ParseError(unwrap(id_str), parsed.reason))
               ELSE None

\* job_callback, lines 97-103: the payload is parsed and what comes of it is
\* sent on the job channel.
JobCallback ==
    /\ is_some(payload)
    /\ delivered = 0
    /\ job_open
    /\ LET job_or_error == parse_job_notification(unwrap(payload))
       IN job_stream' = IF is_some(job_or_error)
                        THEN Append(job_stream, unwrap(job_or_error))
                        ELSE job_stream
    /\ delivered' = delivered + 1
    /\ UNCHANGED <<sec_path, sec_result, val_document, val_result, raw_vars,
                   payload, security, exec_vars, pc, processed_jobs,
                   reconnect_stream, job_open, reconnect_open, cur_job,
                   lifecycle, signalled, served>>

(***************************************************************************)
(* SpecParse: one invocation of job_callback on every payload DrawPayload  *)
(* admits: a text that is not JSON, JSON values that are no object, and    *)
(* objects with or without timestamp and execution, the execution with or  *)
(* without jobId, status and jobDocument, of the right type or not, in two *)
(* orders of the members.                                                  *)
(***************************************************************************)
Member(key, value) == << <<key, value>> >>

JsonInput == JObject(Member("command", JString(GoodCommand)))

JsonAction ==
    JObject(Member("name", JString("step1"))
               \o Member("type", JString("runCommand"))
               \o Member("input", JsonInput))

JsonStep == JObject(Member("action", JsonAction))

JsonRichStep ==
    JObject(Member("action",
        JObject(Member("allowStdErr", JNumber(2))
                   \o Member("input",
                         JObject(Member("timeout", JNumber(30))
                                    \o Member("args",
                                          JArray(<<JString("-v")>>))
                                    \o Member("command",
                                          JString(GoodCommand))))
                   \o Member("runAsUser", JString("svc"))
                   \o Member("ignoreStepFailure", JBool(TRUE))
                   \o Member("type", JString("runCommand"))
                   \o Member("name", JString("step2")))))

JsonNegativeTimeoutStep ==
    JObject(Member("action",
        JObject(Member("name", JString("step1"))
                   \o Member("type", JString("runCommand"))
                   \o Member("input",
                         JObject(Member("command", JString(GoodCommand))
                                    \o Member("timeout", JNumber(-1)))))))

\* Values of several JSON types are listed in sequences and drawn by index.
JsonDocuments ==
    << JObject(Member("version", JString("1.0"))
                  \o Member("steps", JArray(<<JsonStep>>))),
       JObject(Member("comment", JString("nightly"))
                  \o Member("version", JString("1.0"))
                  \o Member("steps", JArray(<<JsonStep, JsonRichStep>>))
                  \o Member("finalStep", JsonStep)
                  \o Member("includeStdOut", JBool(TRUE))),
       JObject(Member("version", JString("1.0"))
                  \o Member("steps", JArray(<<>>))
                  \o Member("finalStep", JNull)),
       JObject(Member("version", JString("1.0"))),
       JObject(Member("version", JString("1.0"))
                  \o Member("steps", JArray(<<JNull>>))),
       JObject(Member("version", JString("1.0"))
                  \o Member("steps", JString("none"))),
       JObject(Member("steps", JArray(<<JsonNegativeTimeoutStep>>))),
       JObject(Member("version", JString("1.0"))
                  \o Member("steps", JArray(<<JsonStep>>))
                  \o Member("version", JString("2.0"))),
       JString("document") >>

\* a member that is not there (index 0) or has the i-th of the values
Maybe(key, values, i) == IF i = 0 THEN <<>> ELSE Member(key, values[i])

JsonJobIds == <<JString("job-1"), JNumber(7)>>
JsonStatuses == <<JString("QUEUED")>>

JsonExecution(id, status, doc, reversed) ==
    LET id_member == Maybe("jobId", JsonJobIds, id)
        status_member == Maybe("status", JsonStatuses, status)
        doc_member == Maybe("jobDocument", JsonDocuments, doc)
    IN JObject(IF reversed THEN doc_member \o status_member \o id_member
               ELSE id_member \o status_member \o doc_member)

JsonGoodExecution == JsonExecution(1, 1, 1, FALSE)

JsonTimestamps == <<JNumber(1), JString("soon")>>
JsonNoExecutions == <<JNull, JString("none"), JArray(<<>>)>>

OtherPayloads ==
    << NotJson, Json(JNull), Json(JNumber(3)), Json(JArray(<<>>)),
       Json(JArray(<<JNull, JNull>>)),
       Json(JArray(<<JNumber(1), JsonGoodExecution>>)),
       Json(JArray(<<JNull, JObject(Member("jobId", JString("job-1")))>>)),
       Json(JObject(Member("execution", JsonGoodExecution)
                       \o Member("execution",
                             JObject(Member("jobId", JString("job-2")))))) >>

\* the payload is one of OtherPayloads, or an object with or without a
\* timestamp whose execution is missing, no object, or an object
DrawPayload ==
    \/ \E i \in 1..Len(OtherPayloads) : payload = Some(OtherPayloads[i])
    \/ \E t \in 0..Len(JsonTimestamps) :
          LET timestamp == Maybe("timestamp", JsonTimestamps, t)
          IN \/ \E e \in 0..Len(JsonNoExecutions) :
                   payload = Some(Json(JObject(
                       timestamp \o Maybe("execution", JsonNoExecutions, e))))
             \/ \E id \in 0..Len(JsonJobIds), status \in 0..Len(JsonStatuses),
                   doc \in 0..Len(JsonDocuments), reversed \in BOOLEAN :
                   payload = Some(Json(JObject(
                       timestamp
                          \o Member("execution",
                                JsonExecution(id, status, doc, reversed)))))

ParseInit ==
    /\ sec_path = <<>>
    /\ sec_result = None
    /\ val_document = None
    /\ val_result = None
    /\ IdleRaw
    /\ DrawPayload
    /\ security = None
    /\ IdleExec
    /\ pc = "loop"
    /\ processed_jobs = <<>>
    /\ job_stream = <<>>
    /\ reconnect_stream = 0
    /\ job_open = TRUE
    /\ reconnect_open = TRUE
    /\ cur_job = None
    /\ lifecycle = <<>>
    /\ delivered = 0
    /\ signalled = 0
    /\ served = 0

ParseNext == JobCallback

SpecParse == ParseInit /\ [][ParseNext]_vars

(***************************************************************************)
(* What a payload is, said without following the deserializer.             *)
(***************************************************************************)
RECURSIVE Conforms(_, _)

\* the JSON value v is a value of the type ty: a struct is an object in
\* which no field occurs twice, every field that is not an Option occurs,
\* and every field that occurs holds a value of its type (members with
\* other keys do not count), or an array of the fields by position
Conforms(v, ty) ==
    CASE ty.k = "String" -> v.type = "string"
      [] ty.k = "int" -> v.type = "number" /\ (ty.signed \/ v.value >= 0)
      [] ty.k = "bool" -> v.type = "bool"
      [] ty.k = "Option" -> v.type = "null" \/ Conforms(v, ty.of)
      [] ty.k = "Vec" ->
            /\ v.type = "array"
            /\ \A i \in 1..Len(v.items) : Conforms(v.items[i], ty.of)
      [] ty.k = "Struct" ->
            LET fields == Fields(ty.name)
            IN \/ /\ v.type = "object"
                  /\ \A i \in 1..Len(v.members) :
                        v.members[i][1] \in Keys(ty.name) =>
                            /\ \A j \in 1..Len(v.members) :
                                  j # i => v.members[j][1] # v.members[i][1]
                            /\ Conforms(v.members[i][2],
                                        FieldOf(ty.name, v.members[i][1]).ty)
                  /\ \A f \in 1..Len(fields) :
                        fields[f].ty.k # "Option" =>
                            \E i \in 1..Len(v.members) :
                                v.members[i][1] = fields[f].key
               \/ /\ v.type = "array"
                  /\ Len(v.items) <= Len(fields)
                  /\ \A f \in 1..Len(fields) :
                        IF f <= Len(v.items)
                        THEN Conforms(v.items[f], fields[f].ty)
                        ELSE fields[f].default

\* the field of a struct value spelled as an object or by position
FieldValue(v, name, key) ==
    IF v.type = "object" THEN Get(v, key)
    ELSE LET fields == Fields(name)
             f == CHOOSE i \in 1..Len(fields) : fields[i].key = key
         IN IF v.type = "array" /\ f <= Len(v.items)
            THEN Some(v.items[f]) ELSE None

\* the payload is a notification as the schema has it
WellFormed(bytes) ==
    bytes.json /\ Conforms(bytes.value, TStruct("JobNotification"))

\* the execution of a well-formed notification, None when it has none
ExecutionOf(bytes) ==
    LET execution == FieldValue(bytes.value, "JobNotification", "execution")
    IN IF is_some(execution) /\ unwrap(execution).type # "null"
       THEN execution ELSE None

\* the string at execution.jobId of a payload that is a JSON object, None
\* when there is none
RecoverableJobId(bytes) ==
    IF ~bytes.json \/ bytes.value.type # "object" THEN None
    ELSE LET execution == Get(bytes.value, "execution")
         IN IF execution = None \/ unwrap(execution).type # "object"
            THEN None
            ELSE LET job_id == Get(unwrap(execution), "jobId")
                 IN IF job_id = None \/ unwrap(job_id).type # "string"
                    THEN None
                    ELSE Some(unwrap(job_id).value)

Called == is_some(payload) /\ delivered = 1

\* C31: job_callback sends at most one event for a payload.  A well-formed
\* notification with an execution gives a Valid job with the jobId of that
\* execution, one without execution gives nothing.  A payload that is not a
\* well-formed notification gives a ParseError with the identifier and the
\* text of the deserialization error when it is a JSON object whose
\* execution.jobId is a string, and nothing otherwise.
C31_AtMostOneEvent ==
    Called =>
        LET bytes == unwrap(payload)
        IN /\ Len(job_stream) <= 1
           /\ IF WellFormed(bytes)
              THEN IF is_some(ExecutionOf(bytes))
                   THEN /\ Len(job_stream) = 1
                        /\ job_stream[1].kind = "Valid"
                        /\ is_some(job_stream[1].job)
                        /\ Some(JString(job_stream[1].job_id))
                              = FieldValue(unwrap(ExecutionOf(bytes)),
                                           "JobExecution", "jobId")
                        /\ unwrap(job_stream[1].job).job_id
                              = job_stream[1].job_id
                   ELSE job_stream = <<>>
              ELSE IF is_some(RecoverableJobId(bytes))
                   THEN /\ Len(job_stream) = 1
                        /\ job_stream[1].kind = "ParseError"
                        /\ job_stream[1].job_id
                              = unwrap(RecoverableJobId(bytes))
                        /\ job_stream[1].error
                              = from_slice(bytes,
                                           TStruct("JobNotification")).reason
                   ELSE job_stream = <<>>

\* a notification whose execution names its job but lacks the status gave a
\* ParseError for that job
C31_Witness ==
    /\ Called
    /\ ~WellFormed(unwrap(payload))
    /\ job_stream = <<ParseError("job-1", "missing field status")>>

====
